---- MODULE Spec2Model ----
(***************************************************************************)
(* Scan-to-record pipeline of the attendance scanner                       *)
(* (src/src/components/QRScanner.tsx) against the attendance store         *)
(* (src/supabase/migrations/20250626132122_rapid_breeze.sql).              *)
(*                                                                         *)
(* QRScanner.tsx holds two scanner components.  impl = "A" is the first    *)
(* (lines 39-1201: handleScanResult, validateAttendanceSequence,           *)
(* processAttendance), impl = "B" the second (lines 1255-1964: handleScan, *)
(* validateQRCode, processAttendance).  A behaviour runs one of them.      *)
(*                                                                         *)
(* Time is in milliseconds.  A timestamp of 0 stands for null/undefined    *)
(* (both are falsy in the code's tests); real timestamps are positive.     *)
(* Every await of the store is split where the moment of the read matters: *)
(* the store executes the query (..Exec), later the response reaches the   *)
(* callback (..Return), which runs the code up to its next await.          *)
(***************************************************************************)
EXTENDS Integers, Sequences, FiniteSets, TLC

\* ---------------------------------------------------------------- bounds
MaxScans == 2          \* recognition callbacks per behaviour, any code
MaxRaceScans == 4      \* the same, when only e1's code is scanned
MaxInFlight == 2       \* callbacks that may await the store at once
MaxElapsed == 184000   \* the clock stops this long after the mount
Lat == 1               \* time between two readings of the clock
MaxFailures == 1       \* store calls that fail per behaviour

\* ------------------------------------------------------- program constants
SCAN_COOLDOWN == 2000
CHECKOUT_TO_CHECKIN_COOLDOWN == 3 * 60 * 1000
COOLDOWN_SCAN == 2000
CHECKIN_TO_CHECKOUT_B == 3 * 60 * 1000

\* time that passes between two recognition callbacks
Gaps == {0, SCAN_COOLDOWN, CHECKOUT_TO_CHECKIN_COOLDOWN - 3 * Lat}

\* the gaps that matter to the sequence of the day: none, and one that
\* carries a scan across the 3 minute cooldown
CooldownGaps == {0, CHECKOUT_TO_CHECKIN_COOLDOWN - 3 * Lat}

Slots == 1..MaxInFlight

\* ------------------------------------------------------------ employees
\* employees table: qr_code is unique, is_active gates scanning
Codes == {"c1", "c2", "cx"}
employees ==
  { [id |-> "e1", qr_code |-> "c1", is_active |-> TRUE],
    [id |-> "e2", qr_code |-> "c2", is_active |-> FALSE] }

NoEmployee == "none"

\* .from('employees').select('*').eq('qr_code', c).eq('is_active', true).single()
findActiveEmployee(c) ==
  LET m == {e \in employees : e.qr_code = c /\ e.is_active}
  IN IF m = {} THEN NoEmployee ELSE (CHOOSE e \in m : TRUE).id

\* .from('employees').select('*').eq('qr_code', c).single()
findEmployee(c) ==
  LET m == {e \in employees : e.qr_code = c}
  IN IF m = {} THEN NoEmployee ELSE (CHOOSE e \in m : TRUE).id

\* --------------------------------------------------- attendance_records
DayMs == 24 * 60 * 60 * 1000

\* format(new Date(), 'yyyy-MM-dd') / toISOString().split('T')[0]
dateOf(t) == t \div DayMs

\* the value a fetch yields when no row matches
NoRecord ==
  [id |-> 0, employee_id |-> NoEmployee, date |-> 0,
   first_check_in |-> 0, first_check_out |-> 0,
   second_check_in |-> 0, second_check_out |-> 0,
   is_late |-> FALSE, late_duration |-> 0, total_hours |-> 0]

\* rows of a table value matching (employee_id, date)
matching(tbl, emp, d) ==
  {i \in 1..Len(tbl) : tbl[i].employee_id = emp /\ tbl[i].date = d}

\* .select('*').eq('employee_id', e).eq('date', d).maybeSingle() / .single():
\* one row, or no data (no row, or PGRST116 for several rows, which both
\* callers let pass as "no record")
fetchAttendance(tbl, emp, d) ==
  LET m == matching(tbl, emp, d)
  IN IF Cardinality(m) = 1 THEN tbl[CHOOSE i \in m : TRUE] ELSE NoRecord

\* the table without its UNIQUE(employee_id, date) constraint
insertAllowed_noUnique(tbl, emp, d) == TRUE

\* UNIQUE(employee_id, date): an insert of a second row for the key fails
insertAllowed(tbl, emp, d) == matching(tbl, emp, d) = {}

\* insert of a new row; the id is generated by the store
insertRow(tbl, row) == Append(tbl, [row EXCEPT !.id = Len(tbl) + 1])

\* .update(updateData).eq('id', id): the columns of updateData are set
updateRow(tbl, id, updateData) ==
  [i \in 1..Len(tbl) |->
     IF tbl[i].id = id THEN updateData @@ tbl[i] ELSE tbl[i]]

\* ------------------------------------------------- lateness and hours
MinuteMs == 60 * 1000
HundredthHourMs == 36 * 1000

\* Math.round(n / d) for d > 0: the nearest integer, halves upwards
round(n, d) == (2 * n + d) \div (2 * d)

\* Number((n / d).toFixed(2) * 100) for d > 0: halves away from zero
toFixed(n, d) == IF n >= 0 THEN round(n, d) ELSE 0 - round(0 - n, d)

\* the settings rows the scanner reads: work_start_time in minutes of the
\* day (NoSetting when the row is missing), late_threshold in minutes
NoSetting == 0 - 1
DEFAULT_START_B == 9 * 60
SettingsChoices ==
  [work_start_time : {NoSetting, 10, 20}, late_threshold : {0, 15}]

\* the settings of the migration: work starts at 09:00, threshold 15
MigrationSettings == [work_start_time |-> 9 * 60, late_threshold |-> 15]

\* new Date(y, m, d, hours, minutes) / setHours(hours, minutes, 0, 0) on
\* the day of t
atTimeOfDay(t, minutes) == dateOf(t) * DayMs + minutes * MinuteMs

\* checkIfLate(checkInTime) of the first component, given the settings
checkIfLate(t, cfg) ==
  IF cfg.work_start_time = NoSetting
  THEN [isLate |-> FALSE, lateDuration |-> 0]
  ELSE LET workStart == atTimeOfDay(t, cfg.work_start_time)
       IN IF t > workStart
          THEN [isLate |-> TRUE,
                lateDuration |-> (t - workStart) \div MinuteMs]
          ELSE [isLate |-> FALSE, lateDuration |-> 0]

\* isLate(checkInTime) of the second component
isLate(t, cfg) ==
  LET startTime == IF cfg.work_start_time = NoSetting THEN DEFAULT_START_B
                   ELSE cfg.work_start_time
  IN t > atTimeOfDay(t, startTime)

\* calculateTotalHours(attendance, secondCheckOut), in hundredths of an hour
calculateTotalHours(att, secondCheckOut) ==
  LET morning == att.first_check_out - att.first_check_in
      afternoon == secondCheckOut - att.second_check_in
  IN round(morning + afternoon, HundredthHourMs)

\* calculateHours(start, end), in hundredths of an hour
calculateHours(start, end) == toFixed(end - start, HundredthHourMs)

\* ----------------------------------------------- validateAttendanceSequence
\* a result whose canProceed is left true on the rejecting branches
Validation_canProceed(valid, action, remaining) ==
  [isValid |-> valid, nextAction |-> action,
   cooldownRemaining |-> remaining, canProceed |-> TRUE]

\* the AttendanceValidation results the function builds
Validation(valid, action, remaining) ==
  [isValid |-> valid, nextAction |-> action,
   cooldownRemaining |-> remaining, canProceed |-> valid]

\* a fetch error that is let pass as "no data"
fetchError_ignored(err) == FALSE

\* if (error && error.code !== 'PGRST116') throw error
fetchError(err) == err

\* the decision taken from the fetched record (att) at time t; err is the
\* fetch error that the catch block turns into nextAction 'error'
validateAttendanceSequence(att, err, t) ==
  IF fetchError(err) THEN Validation(FALSE, "error", 0)
  ELSE IF att.id = 0 THEN Validation(TRUE, "first_check_in", 0)
  ELSE IF att.first_check_in # 0 /\ att.first_check_out = 0
       THEN Validation(TRUE, "first_check_out", 0)
  ELSE IF att.first_check_in # 0 /\ att.first_check_out # 0
          /\ att.second_check_in = 0
       THEN LET timeSinceCheckOut == t - att.first_check_out
                cooldownRemaining ==
                  CHECKOUT_TO_CHECKIN_COOLDOWN - timeSinceCheckOut
            IN IF timeSinceCheckOut < CHECKOUT_TO_CHECKIN_COOLDOWN
               THEN Validation(FALSE, "second_check_in", cooldownRemaining)
               ELSE Validation(TRUE, "second_check_in", 0)
  ELSE IF att.second_check_in # 0 /\ att.second_check_out = 0
       THEN Validation(TRUE, "second_check_out", 0)
  ELSE IF att.second_check_out # 0
       THEN Validation(FALSE, "complete", 0)
  ELSE Validation(FALSE, "unknown", 0)

\* Math.ceil(n / d) for n >= 0
ceil(n, d) == (n + d - 1) \div d

\* the minutes and seconds of the message of a cooldown rejection
remainingMinutes(cooldownRemaining) == ceil(cooldownRemaining, 60 * 1000)

remainingSeconds(cooldownRemaining) ==
  ceil(cooldownRemaining % (60 * 1000), 1000)

\* errorMessage of a result: `wait ${minutes}m ${seconds}s` on a cooldown
\* rejection, a text without numbers otherwise
NoMessage == [minutes |-> 0, seconds |-> 0]

cooldownMessage(v) ==
  IF ~v.isValid /\ v.nextAction = "second_check_in"
  THEN [minutes |-> remainingMinutes(v.cooldownRemaining),
        seconds |-> remainingSeconds(v.cooldownRemaining)]
  ELSE NoMessage

\* -------------------------------------------------- ScannerPerformance
\* (src/src/lib/scannerPerformance.ts)

MaxRecords == 4            \* record* calls per behaviour

\* events kept by addToHistory
HistoryCap == 100

\* processing times and errors reported to the monitor
ProcessingTimes == {100}
ErrorTypes == {"camera"}

\* Array.prototype.slice(-n): the last n elements, all of them when fewer
slice_head(h, n) == SubSeq(h, 1, IF Len(h) > n THEN n ELSE Len(h))

slice(h, n) == SubSeq(h, IF Len(h) > n THEN Len(h) - n + 1 ELSE 1, Len(h))

addToHistory(h, t, eventName, data) ==
  LET pushed == Append(h, [timestamp |-> t, event |-> eventName, data |-> data])
  IN IF Len(pushed) > HistoryCap THEN slice(pushed, HistoryCap) ELSE pushed

\* a fresh monitor, and a monitor on which n flicker events were recorded,
\* one per millisecond, the last of them at time t
NoMetrics ==
  [scanAttempts |-> 0, successfulScans |-> 0, errorCount |-> 0,
   averageProcessingTime |-> 0, lastScanTime |-> 0, flickerEvents |-> 0,
   cameraRestarts |-> 0]

flickersBefore(n, t) ==
  [i \in 1..n |-> [timestamp |-> t - n + i, event |-> "flicker", data |-> <<>>]]

\* the numbers of events already recorded when a behaviour starts
Prefills == {0, HistoryCap - 2, HistoryCap}

\* ------------------------------------------------ the scanner's lifecycle
\* (QRScanner.tsx: mount effect, initializeScanner, handleScannerError,
\* cleanup)

MaxRetries == 2            \* retries after an error per behaviour
MaxCaptureErrors == 2      \* error events of the video element per behaviour

\* a video element that stays in the page while an error is shown
videoRendered_always(err) == TRUE

\* the <video> element is rendered only while the error state is empty
\* ({error ? <error box with Retry> : <video ref={videoRef}>}), so
\* videoRef.current is null once an error is rendered
videoRendered(err) == ~err

\* a run of initializeScanner: where it is, the QrScanner it created, and
\* whether initializeAsync of the mount effect awaits it
Run(pc, scanner, fromMount) ==
  [pc |-> pc, scanner |-> scanner, fromMount |-> fromMount]

\* a QrScanner instance and an interval timer
QrScanner(started, destroyed) == [started |-> started, destroyed |-> destroyed]

Interval(kind, active) == [kind |-> kind, active |-> active]

\* the component when its mount effect has run: the first component waits
\* out the 500 ms delay of initializeAsync, the second has created its
\* QrScanner and awaits start()
justMounted(i) ==
  [isMountedRef |-> TRUE, initializingRef |-> FALSE,
   scannerRef |-> IF i = "A" THEN 0 ELSE 1,
   qrScanners |-> IF i = "A" THEN <<>> ELSE <<QrScanner(FALSE, FALSE)>>,
   intervals |-> <<>>, metricsIntervalRef |-> 0, lightDetectionRef |-> 0,
   srcObject |-> FALSE, error |-> FALSE, scannerStatus |-> "initializing",
   dialogOpen |-> FALSE,
   runs |-> IF i = "A" THEN <<Run("delay", 0, TRUE)>>
                       ELSE <<Run("starting", 1, TRUE)>>,
   closeLog |-> <<>>, captureErrors |-> 0, retries |-> 0]

\* the component once its scanner runs
scannerRunning(i) ==
  [justMounted(i) EXCEPT
     !.scannerRef = 1,
     !.qrScanners = <<QrScanner(TRUE, FALSE)>>,
     !.intervals = IF i = "A"
                   THEN <<Interval("light", TRUE), Interval("metrics", TRUE)>>
                   ELSE <<Interval("light", TRUE)>>,
     !.lightDetectionRef = 1,
     !.metricsIntervalRef = IF i = "A" THEN 2 ELSE 0,
     !.srcObject = TRUE,
     !.scannerStatus = "ready",
     !.runs = <<Run("done", 1, TRUE)>>]

\* ------------------------------------------------------ the light monitor
\* (QRScanner.tsx: startLightLevelMonitoring 271-294, enableFlash 812-826)

MaxSamples == 3            \* runs of the light-monitoring callback

MIN_LIGHT_LEVEL == 5

\* the brightness of the scene, below, at and above the critical threshold
LightLevels == {0, 4, MIN_LIGHT_LEVEL, 50}

\* a callback that reads the scanning state of the current render
capturedScanning_live(scanningNow) == scanningNow

\* the scanning state the light-monitoring callback reads.  The callback is
\* created by startLightLevelMonitoring, called by the initializeScanner of
\* the render that ran the mount effect, so it keeps the scanning of that
\* render, the initial false; setScanning(true) changes later renders only
capturedScanning(scanningNow) == FALSE

\* the flashEnabled the callback reads, the initial false of the same render
capturedFlashEnabled(flashNow) == FALSE

\* ------------------------------------------------------- CameraOptimizer
\* (src/src/lib/cameraOptimizer.ts)

MaxCameraCalls == 2        \* getOptimalSettings calls per behaviour

\* a capability the track does not report (undefined), for numbers and for
\* lists of modes
NoMax == 0

Absent == {}

\* what videoTrack.getCapabilities() can report
TrackCapabilities ==
  [width : {NoMax, 1280, 1920}, frameRate : {NoMax, 30},
   focusMode : {Absent, {"continuous", "manual"}, {"manual"}},
   exposureMode : {Absent, {"continuous"}},
   whiteBalanceMode : {Absent, {"manual"}},
   torch : BOOLEAN]

\* the devices: the number of video inputs and the capabilities of the
\* environment-facing track
Devices == [deviceCount : {1, 2}, capabilities : TrackCapabilities]

\* the caller's preferences; NoResolution and NoPreference stand for a
\* missing property
NoResolution == ""

NoPreference == 0

Preferences == [resolution : {NoResolution, "high"},
                frameRate : {NoPreference, 30}]

getSupportedResolutions(capabilities) ==
  <<"low">> \o (IF capabilities.width >= 1280 THEN <<"medium">> ELSE <<>>)
            \o (IF capabilities.width >= 1920 THEN <<"high">> ELSE <<>>)

getSupportedFrameRates(capabilities) ==
  <<10, 15>> \o (IF capabilities.frameRate >= 20 THEN <<20>> ELSE <<>>)
             \o (IF capabilities.frameRate >= 30 THEN <<30>> ELSE <<>>)

\* advanced controls told from focus, exposure and white balance only
hasAdvancedControls_noTorch(capabilities) ==
  \/ capabilities.focusMode # Absent
  \/ capabilities.exposureMode # Absent
  \/ capabilities.whiteBalanceMode # Absent

hasAdvancedControls(capabilities) ==
  \/ capabilities.focusMode # Absent
  \/ capabilities.exposureMode # Absent
  \/ capabilities.whiteBalanceMode # Absent
  \/ capabilities.torch

\* the profile detectDeviceCapabilities builds from a successful probe; the
\* first video input is labelled 'back', the second 'front'
probedProfile(dev) ==
  [deviceCount |-> dev.deviceCount,
   hasBackCamera |-> dev.deviceCount >= 1,
   hasFrontCamera |-> dev.deviceCount >= 2,
   capabilities |-> dev.capabilities,
   supportedResolutions |-> getSupportedResolutions(dev.capabilities),
   supportedFrameRates |-> getSupportedFrameRates(dev.capabilities),
   hasAdvancedControls |-> hasAdvancedControls(dev.capabilities)]

\* capabilities: {} of the profile returned when the probe fails
NoCapabilities ==
  [width |-> NoMax, frameRate |-> NoMax, focusMode |-> Absent,
   exposureMode |-> Absent, whiteBalanceMode |-> Absent, torch |-> FALSE]

\* the profile returned from the catch block
fallbackProfile ==
  [deviceCount |-> 0, hasBackCamera |-> FALSE, hasFrontCamera |-> FALSE,
   capabilities |-> NoCapabilities,
   supportedResolutions |-> <<"medium">>,
   supportedFrameRates |-> <<15>>,
   hasAdvancedControls |-> FALSE]

\* this.deviceCapabilities = null
NoProfile == [fallbackProfile EXCEPT !.deviceCount = 0 - 1]

resolutionMap(resolution) ==
  CASE resolution = "low" -> [width |-> 640, height |-> 480]
    [] resolution = "medium" -> [width |-> 1280, height |-> 720]
    [] resolution = "high" -> [width |-> 1920, height |-> 1080]

preferredMode(modes, fallback) ==
  IF "continuous" \in modes THEN "continuous" ELSE fallback

buildOptimalConstraints(capabilities, settings) ==
  LET resolution == resolutionMap(settings.resolution)
      c == capabilities.capabilities
      advanced ==
        (IF c.focusMode # Absent
         THEN <<[name |-> "focusMode",
                 value |-> preferredMode(c.focusMode, "single-shot")]>>
         ELSE <<>>)
        \o (IF c.exposureMode # Absent
            THEN <<[name |-> "exposureMode",
                    value |-> preferredMode(c.exposureMode, "manual")]>>
            ELSE <<>>)
        \o (IF c.whiteBalanceMode # Absent
            THEN <<[name |-> "whiteBalanceMode",
                    value |-> preferredMode(c.whiteBalanceMode, "manual")]>>
            ELSE <<>>)
        \o (IF c.torch THEN <<[name |-> "torch", value |-> "false"]>>
            ELSE <<>>)
  IN [facingMode |-> "environment",
      width |-> [ideal |-> resolution.width, max |-> resolution.width],
      height |-> [ideal |-> resolution.height, max |-> resolution.height],
      frameRate |-> [ideal |-> settings.frameRate,
                     max |-> IF settings.frameRate + 5 < 30
                             THEN settings.frameRate + 5 ELSE 30],
      hasAdvanced |-> capabilities.hasAdvancedControls,
      advanced |-> IF capabilities.hasAdvancedControls THEN advanced ELSE <<>>]

\* getOptimalSettings once detectDeviceCapabilities has answered
optimalSettingsFor(capabilities, userPreferences) ==
  LET limited == capabilities.deviceCount = 1
                 \/ ~capabilities.hasAdvancedControls
      highEnd == capabilities.capabilities.width >= 1920
                 /\ capabilities.capabilities.frameRate >= 30
      optimalResolution ==
        IF highEnd
        THEN (IF userPreferences.resolution # NoResolution
              THEN userPreferences.resolution ELSE "medium")
        ELSE IF limited THEN "low" ELSE "medium"
      optimalFrameRate ==
        IF highEnd
        THEN (IF userPreferences.frameRate # NoPreference
              THEN userPreferences.frameRate ELSE 20)
        ELSE IF limited THEN 10 ELSE 15
  IN [facingMode |-> "environment",
      resolution |-> optimalResolution,
      frameRate |-> optimalFrameRate,
      enableAdvancedControls |-> capabilities.hasAdvancedControls,
      recommendedConstraints |->
        buildOptimalConstraints(capabilities,
                                [resolution |-> optimalResolution,
                                 frameRate |-> optimalFrameRate])]

\* the device of a session that does not use the optimizer
PlainDevice == [deviceCount |-> 1, capabilities |-> NoCapabilities]

\* ------------------------------------------------------------------ state
\* ------------------------------------------------ notification channels
\* (notifications.ts 44-77, oneSignalService.ts 237-328 and 566-591)

\* the legacy channel as the device offers it: the browser has no
\* Notification object, permission is not granted, showNotification and
\* the fallback constructor both throw, or the notification is shown
LegacyStates == {"missing", "denied", "failing", "shown"}

\* the OneSignal channel: no REST API key, the request fails, or the
\* notification is sent
OneSignalStates == {"unconfigured", "failing", "sent"}

\* a device: its two channels, and whether localStorage takes writes
Channels ==
  [legacy : LegacyStates, oneSignal : OneSignalStates, storage : BOOLEAN]

WorkingChannels == [legacy |-> "shown", oneSignal |-> "sent", storage |-> TRUE]

\* NotificationService.sendNotification: Notification.permission is read
\* before the try block; what the try block catches is logged
NotificationService_sendNotification(ch) ==
  IF ch.legacy = "missing" THEN "throws" ELSE "returns"

\* OneSignalService.logNotificationEvent writes the log to localStorage
logNotificationEvent(ch) == IF ch.storage THEN "returns" ELSE "throws"

\* OneSignalService.sendNotification: returns false without a REST API key;
\* otherwise it logs the outcome, from the try block when the request was
\* answered and from the catch block when the request or the logging threw
OneSignalService_sendNotification(ch) ==
  IF ch.oneSignal = "unconfigured" THEN "false"
  ELSE IF logNotificationEvent(ch) = "throws" THEN "throws"
  ELSE IF ch.oneSignal = "sent" THEN "true" ELSE "false"

\* showSuccessFeedback of the first component awaits the legacy channel,
\* then OneSignal, then opens the 'Attendance Recorded' dialog
showSuccessFeedback(ch) ==
  IF NotificationService_sendNotification(ch) = "throws" THEN "throws"
  ELSE IF OneSignalService_sendNotification(ch) = "throws" THEN "throws"
  ELSE "shown"

VARIABLES
  impl,          \* which scanner component runs: "A" or "B"
  now,           \* Date.now()
  isOnline,      \* isOnline as the scan callback of A captured it at mount
  attendance_records,  \* the table, a sequence of rows; id = position
  scanCache,     \* A: React state scanCache (code -> last accepted time)
  lastScanRef,   \* B: lastScanRef.current (code -> last accepted time)
  calls,         \* the callbacks in flight, one per slot
  scans,         \* recognition callbacks fired so far
  failures,      \* store calls that failed so far
  ev,            \* what the last step did (observation only)
  lastReject,    \* last cooldown rejection per employee (observation only)
  lastFeedbackTime,  \* FeedbackSystem.lastFeedbackTime
  fbEnv,         \* FeedbackSystem: audioContext set, 'vibrate' in navigator
  fbLog,         \* the provideFeedback calls made so far (observation only)
  settings,      \* the settings table (never written by the scanner)
  horizon,       \* the time at which the clock of the model stops
  performanceMetrics,  \* ScannerPerformance.performanceMetrics
  performanceHistory,  \* ScannerPerformance.performanceHistory
  recorded,      \* every event handed to addToHistory (observation only)
  perfCalls,     \* calls of the monitor in this behaviour (observation only)
  isMountedRef,  \* isMountedRef.current
  initializingRef,     \* A: initializingRef.current
  scannerRef,    \* scannerRef.current: a position in qrScanners, 0 for null
  qrScanners,    \* the QrScanner instances created so far
  intervals,     \* the interval timers set so far
  metricsIntervalRef,  \* A: metricsIntervalRef.current (position, 0 for null)
  lightDetectionRef,   \* lightDetectionRef.current, in B
                       \* lightMonitoringIntervalRef.current
  srcObject,     \* the video element holds a live media stream
  error,         \* A: the error state is not empty
  scannerStatus, \* A: scannerStatus, B: scannerState.status
  dialogOpen,    \* A: the 'Scanner Error' dialog is open
  runs,          \* the runs of initializeScanner
  closeLog,      \* the teardown steps cleanup ran (observation only)
  captureErrors, \* error events of the video element so far
  retries,       \* retries so far
  flashEnabled,  \* A: the flashEnabled state
  lightLevel,    \* the brightness detectLightLevel would measure now
  lightLog,      \* the runs of the light-monitoring callback (observation
                 \* only)
  device,        \* the camera hardware the browser reports
  deviceCapabilities,  \* CameraOptimizer.deviceCapabilities
  probes,        \* capability probes started so far
  cameraCalls,   \* the preferences of the getOptimalSettings calls that wait
                 \* for their probe
  cameraLog,     \* the getOptimalSettings calls that returned (observation
                 \* only; the last entry holds optimalSettings)
  channels,      \* the notification channels of the device
  both           \* the day's record of e1 at a scanner of each kind, and
                 \* what each made of the last scan

\* the state of FeedbackSystem
feedbackVars == <<lastFeedbackTime, fbEnv, fbLog>>

\* the state of the components other than the scanner
\* what is set at the start and never changes
fixedVars == <<settings, horizon>>

\* the state of ScannerPerformance
perfVars == <<performanceMetrics, performanceHistory, recorded, perfCalls>>

\* the state of the scanner's lifecycle
lifeVars == <<isMountedRef, initializingRef, scannerRef, qrScanners,
              intervals, metricsIntervalRef, lightDetectionRef, srcObject,
              error, scannerStatus, dialogOpen, runs, closeLog,
              captureErrors, retries>>

\* the lifecycle state a scan callback leaves alone
lifeRest == <<isMountedRef, initializingRef, scannerRef, qrScanners,
              intervals, metricsIntervalRef, lightDetectionRef, srcObject,
              dialogOpen, runs, closeLog, captureErrors, retries>>

\* the state of the light monitor
lightVars == <<flashEnabled, lightLevel, lightLog>>

\* the state of the components modelled after the lifecycle
\* the state of CameraOptimizer
cameraVars == <<device, deviceCapabilities, probes, cameraCalls, cameraLog>>

\* the environment of the notification services
channelVars == <<channels>>

\* one employee at a scanner of each kind
equivVars == <<both>>

laterVars == <<lightVars, cameraVars, channelVars, equivVars>>

otherVars == <<feedbackVars, fixedVars, perfVars, lifeVars, laterVars>>

vars == <<impl, now, isOnline, attendance_records, scanCache, lastScanRef,
          calls, scans, failures, ev, lastReject, otherVars>>

\* a callback: where it is (pc), its code, the employee found, the clock
\* readings it took (vnow, pnow), the validated action, the record it
\* fetched (att, err), the row it upserts (row); afterComplete notes that
\* the callback fired when the day's record of its code was complete
\* (observation only)
Idle ==
  [pc |-> "idle", code |-> "none", emp |-> NoEmployee, vnow |-> 0,
   action |-> "none", att |-> NoRecord, err |-> FALSE, pnow |-> 0,
   row |-> NoRecord, afterComplete |-> FALSE]

NoEvent ==
  [kind |-> "none", code |-> "none", emp |-> NoEmployee, t |-> 0,
   prev |-> 0, overlap |-> FALSE, att |-> NoRecord, isValid |-> FALSE,
   canProceed |-> FALSE,
   nextAction |-> "none", remaining |-> 0, failed |-> FALSE,
   wrote |-> FALSE, afterComplete |-> FALSE, slot |-> 0,
   wroteHours |-> FALSE, message |-> NoMessage, caught |-> FALSE]

\* the scanCache value the scan callback reads.  The QrScanner callback is
\* created once, by initializeScanner of the first render (useEffect with
\* no dependencies), and keeps calling that render's handleScanResult,
\* whose closure holds the initial state {} whatever setScanCache stored.
capturedScanCache == [c \in Codes |-> 0]

\* The scanner is mounted at time MountTime against a store that earlier
\* sessions left in any stage of the day's sequence: the record of e1 holds
\* its first k timestamps, the last one written 2 * Lat ago and each
\* earlier one a cooldown (3 minutes, enough for both components) before
\* the next.
MountTime == 4 * CHECKOUT_TO_CHECKIN_COOLDOWN

stamp(k, i) ==
  IF i > k THEN 0
  ELSE MountTime - 2 * Lat - (k - i) * CHECKOUT_TO_CHECKIN_COOLDOWN

\* the row as component i writes it under settings cfg
recordAtStage(k, i, cfg) ==
  LET r == [NoRecord EXCEPT
              !.id = 1, !.employee_id = "e1", !.date = dateOf(MountTime),
              !.first_check_in = stamp(k, 1), !.first_check_out = stamp(k, 2),
              !.second_check_in = stamp(k, 3),
              !.second_check_out = stamp(k, 4)]
      late == checkIfLate(r.first_check_in, cfg)
  IN IF i = "A"
     THEN [r EXCEPT !.is_late = late.isLate,
                    !.late_duration = late.lateDuration,
                    !.total_hours =
                       IF k = 4
                       THEN calculateTotalHours(r, r.second_check_out)
                       ELSE 0]
     ELSE [r EXCEPT !.is_late = isLate(r.first_check_in, cfg),
                    !.total_hours =
                       IF k = 1 THEN 0
                       ELSE calculateHours(r.first_check_in,
                                           r.first_check_out) +
                            (IF k = 4
                             THEN calculateHours(r.second_check_in,
                                                 r.second_check_out)
                             ELSE 0)]

\* the lifecycle variables hold the values of st
lifeIs(st) ==
  /\ isMountedRef = st.isMountedRef
  /\ initializingRef = st.initializingRef
  /\ scannerRef = st.scannerRef
  /\ qrScanners = st.qrScanners
  /\ intervals = st.intervals
  /\ metricsIntervalRef = st.metricsIntervalRef
  /\ lightDetectionRef = st.lightDetectionRef
  /\ srcObject = st.srcObject
  /\ error = st.error
  /\ scannerStatus = st.scannerStatus
  /\ dialogOpen = st.dialogOpen
  /\ runs = st.runs
  /\ closeLog = st.closeLog
  /\ captureErrors = st.captureErrors
  /\ retries = st.retries

Init ==
  /\ impl \in {"A", "B"}
  /\ now = MountTime
  /\ isOnline \in BOOLEAN
  /\ settings \in SettingsChoices \cup {MigrationSettings}
  /\ horizon = MountTime + MaxElapsed
  /\ \E k \in 0..4 :
       attendance_records =
         IF k = 0 THEN <<>> ELSE <<recordAtStage(k, impl, settings)>>
  /\ scanCache = [c \in Codes |-> 0]
  /\ lastScanRef = [c \in Codes |-> 0]
  /\ calls = [p \in Slots |-> Idle]
  /\ scans = 0
  /\ failures = 0
  /\ ev = NoEvent
  /\ lastReject = [at |-> 0, remaining |-> 0, id |-> 0]
  /\ lastFeedbackTime = 0
  /\ fbEnv \in [audio : BOOLEAN, vibrate : BOOLEAN]
  /\ fbLog = <<>>
  /\ \E n \in Prefills :
       /\ recorded = flickersBefore(n, MountTime)
       /\ performanceHistory = recorded
       /\ performanceMetrics = [NoMetrics EXCEPT !.flickerEvents = n]
  /\ perfCalls = 0
  /\ \E st \in {justMounted(impl), scannerRunning(impl)} : lifeIs(st)
  /\ flashEnabled \in BOOLEAN
  /\ lightLevel \in LightLevels
  /\ lightLog = <<>>
  /\ device \in Devices \cup {PlainDevice}
  /\ deviceCapabilities = NoProfile
  /\ probes = 0
  /\ cameraCalls = <<>>
  /\ cameraLog = <<>>
  /\ channels \in Channels
  /\ both = [A |-> NoRecord, B |-> NoRecord,
              acceptedA |-> FALSE, acceptedB |-> FALSE]

\* a monitor on which nothing was recorded
perfAtRest == recorded = <<>>

\* the flash off in a well-lit room
lightAtRest == ~flashEnabled /\ lightLevel = 50

\* the components modelled after the lifecycle, as a scanner session that
\* does not use them finds them
cameraAtRest == device = PlainDevice

\* a device on which both channels deliver; a specification that is not
\* about the channels starts on such a device
channelsAtRest == channels = WorkingChannels

componentsAtRest == lightAtRest /\ cameraAtRest

\* the other components as a scanner session finds them
othersAtRest ==
  /\ fbEnv = [audio |-> TRUE, vibrate |-> TRUE] /\ settings = MigrationSettings
  /\ perfAtRest
  /\ lifeIs(scannerRunning(impl))
  /\ componentsAtRest

freeSlot == CHOOSE p \in Slots : calls[p].pc = "idle" /\
                                 \A q \in Slots : calls[q].pc = "idle" => p <= q

\* another callback for code c is awaiting the employee lookup or the
\* sequence validation
awaitingValidation(c) ==
  \E q \in Slots : calls[q].code = c /\
     calls[q].pc \in {"lookup", "vfetch", "vresp", "fetch", "fetched"}

\* the day's record of the employee that carries code c is complete
completeFor(c) ==
  \E i \in 1..Len(attendance_records) :
     /\ attendance_records[i].employee_id = findEmployee(c)
     /\ attendance_records[i].date = dateOf(now)
     /\ attendance_records[i].second_check_out # 0

\* ------------------------------------------------------------ helpers
finish(p) == calls' = [calls EXCEPT ![p] = Idle]

event(kind, c, fields) ==
  ev' = [f \in DOMAIN NoEvent |->
           IF f = "kind" THEN kind
           ELSE IF f = "code" THEN c
           ELSE IF f \in DOMAIN fields THEN fields[f]
           ELSE NoEvent[f]]

quiet == ev' = NoEvent

\* the outcome of a store call: ok, or one more failure
storeCall(ok) ==
  /\ ok \/ failures < MaxFailures
  /\ failures' = IF ok THEN failures ELSE failures + 1

\* the clock moves on by d
tick(d) == now + d <= horizon /\ now' = now + d

\* what a callback reports of itself when it validates, writes or fails
report(p, t) ==
  [emp |-> calls[p].emp, t |-> t, att |-> calls[p].att,
   nextAction |-> calls[p].action,
   afterComplete |-> calls[p].afterComplete, slot |-> p]

\* a QrScanner is started and not destroyed: recognition callbacks fire
capturing ==
  \E s \in DOMAIN qrScanners :
     qrScanners[s].started /\ ~qrScanners[s].destroyed

\* what a scan callback leaves alone
uiRest == <<feedbackVars, fixedVars, perfVars, lifeRest, laterVars>>

\* the callback sets the status to 'processing' (457; 1333), which it does
\* only while the component is mounted
begins ==
  /\ scannerStatus' = IF isMountedRef THEN "processing" ELSE scannerStatus
  /\ UNCHANGED <<error, uiRest>>

\* the callback awaits its next store call
continues == UNCHANGED <<scannerStatus, error, uiRest>>

\* the callback ends.  threw: its catch block runs, where handleProcessingError
\* of the first component sets the error state and handleError of the
\* second opens a dialog.  Then the status is set to 'ready' (528; 1342,
\* 1345).  Both happen only while the component is mounted
returns(threw) ==
  /\ scannerStatus' = IF isMountedRef THEN "ready" ELSE scannerStatus
  /\ error' = IF impl = "A" /\ threw /\ isMountedRef THEN TRUE ELSE error
  /\ UNCHANGED uiRest

\* showTimingError awaits the OneSignal channel
showTimingError(ch) ==
  IF OneSignalService_sendNotification(ch) = "throws" THEN "throws"
  ELSE "shown"

\* processAttendance after its write: showSuccessFeedback is awaited while
\* the component is mounted
afterWrite(ch, mounted) ==
  IF mounted THEN showSuccessFeedback(ch) ELSE "skipped"

\* ================================================= first component (A)

\* handleScanResult up to its first store call: the recognition callback
\* for code c fires g ms after the last reading of the clock
A_handleScanResult(c, g, max) ==
  /\ impl = "A"
  /\ isMountedRef /\ capturing
  /\ scans < max
  /\ tick(g)
  /\ scans' = scans + 1
  /\ LET t == now'
         seen == capturedScanCache[c]
         info == [t |-> t, prev |-> scanCache[c],
                  overlap |-> awaitingValidation(c)]
     IN IF seen # 0 /\ t - seen < SCAN_COOLDOWN
        THEN \* scan cooldown: return
             /\ event("suppressed", c, info)
             /\ UNCHANGED <<scanCache, calls>>
             /\ returns(FALSE)
        ELSE /\ scanCache' = [scanCache EXCEPT ![c] = t]
             /\ IF ~isOnline
                THEN \* throw new Error('No internet connection')
                     /\ event("offline", c, info @@ [caught |-> TRUE])
                     /\ UNCHANGED calls
                     /\ returns(TRUE)
                ELSE /\ \E p \in Slots : calls[p].pc = "idle"
                     /\ calls' = [calls EXCEPT ![freeSlot] =
                          [Idle EXCEPT !.pc = "lookup", !.code = c,
                                       !.afterComplete = completeFor(c)]]
                     /\ event("started", c, info)
                     /\ begins
  /\ UNCHANGED <<impl, isOnline, attendance_records, lastScanRef, failures,
                 lastReject>>

\* the employee lookup returns; ok = FALSE is a store error
A_employeeLookupReturn(p, ok) ==
  /\ impl = "A"
  /\ calls[p].pc = "lookup"
  /\ storeCall(ok)
  /\ LET emp == IF ok THEN findActiveEmployee(calls[p].code) ELSE NoEmployee
     IN IF emp = NoEmployee
        THEN \* throw new Error('Invalid QR code or employee not found')
             /\ finish(p)
             /\ event("notfound", calls[p].code,
                      [failed |-> ~ok, afterComplete |-> calls[p].afterComplete,
                       slot |-> p, caught |-> TRUE])
             /\ UNCHANGED now
             /\ returns(TRUE)
        ELSE \* validateAttendanceSequence: today and now are taken here
             /\ tick(Lat)
             /\ calls' = [calls EXCEPT ![p].pc = "vfetch", ![p].emp = emp,
                                       ![p].vnow = now']
             /\ quiet
             /\ continues
  /\ UNCHANGED <<impl, isOnline, attendance_records, scanCache, lastScanRef,
                 scans, lastReject>>

\* the store executes the fetch of validateAttendanceSequence
A_validateFetchExec(p, ok) ==
  /\ impl = "A"
  /\ calls[p].pc = "vfetch"
  /\ storeCall(ok)
  /\ calls' = [calls EXCEPT
       ![p].pc = "vresp",
       ![p].err = ~ok,
       ![p].att = IF ok THEN fetchAttendance(attendance_records, calls[p].emp,
                                             dateOf(calls[p].vnow))
                  ELSE NoRecord]
  /\ quiet
  /\ UNCHANGED <<impl, now, isOnline, attendance_records, scanCache,
                 lastScanRef, scans, lastReject>>
  /\ continues

\* validateAttendanceSequence returns to handleScanResult, which either
\* shows the timing error and returns or enters processAttendance
A_validateReturn(p) ==
  /\ impl = "A"
  /\ calls[p].pc = "vresp"
  /\ tick(Lat)
  /\ LET c == calls[p]
         v == validateAttendanceSequence(c.att, c.err, c.vnow)
         threw == ~v.canProceed /\ showTimingError(channels) = "throws"
         info == [report(p, c.vnow) EXCEPT !.nextAction = v.nextAction] @@
                 [isValid |-> v.isValid, canProceed |-> v.canProceed,
                  remaining |-> v.cooldownRemaining, failed |-> c.err,
                  message |-> cooldownMessage(v), caught |-> threw]
     IN /\ event("validated", c.code, info)
        /\ IF ~v.canProceed
           THEN \* showTimingError, return
                /\ finish(p)
                /\ lastReject' =
                     IF v.nextAction = "second_check_in"
                     THEN [at |-> c.vnow, remaining |-> v.cooldownRemaining,
                           id |-> c.att.id]
                     ELSE lastReject
                /\ returns(threw)
           ELSE \* processAttendance: now is taken here
                /\ calls' = [calls EXCEPT ![p].pc = "pfetch",
                                          ![p].action = v.nextAction,
                                          ![p].pnow = now']
                /\ UNCHANGED lastReject
                /\ continues
  /\ UNCHANGED <<impl, isOnline, attendance_records, scanCache, lastScanRef,
                 scans, failures>>

\* the fetch of processAttendance is executed and returns; processAttendance
\* picks the write
A_processFetchReturn(p, ok) ==
  /\ impl = "A"
  /\ calls[p].pc = "pfetch"
  /\ storeCall(ok)
  /\ LET c == calls[p]
         att == IF ok THEN fetchAttendance(attendance_records, c.emp,
                                           dateOf(c.pnow))
                ELSE NoRecord
         info == [report(p, c.pnow) EXCEPT !.att = att] @@
                 [isValid |-> TRUE, canProceed |-> TRUE, failed |-> ~ok,
                  caught |-> TRUE]
     IN IF ~ok
        THEN \* throw fetchError
             finish(p) /\ event("error", c.code, info) /\ returns(TRUE)
        ELSE IF att.id = 0 /\ c.action = "first_check_in"
        THEN \* checkIfLate reads the settings, then the insert is sent
             /\ calls' = [calls EXCEPT ![p].pc = "insert", ![p].att = att]
             /\ quiet
             /\ continues
        ELSE IF att.id # 0 /\ c.action \in
                  {"first_check_out", "second_check_in", "second_check_out"}
        THEN /\ calls' = [calls EXCEPT ![p].pc = "update", ![p].att = att]
             /\ quiet
             /\ continues
        ELSE \* 'Invalid action' / 'Invalid state'
             finish(p) /\ event("error", c.code, info) /\ returns(TRUE)
  /\ UNCHANGED <<impl, now, isOnline, attendance_records, scanCache,
                 lastScanRef, scans, lastReject>>

\* checkIfLate has returned (a failed settings read counts as "not late"),
\* the insert of the day's record is executed and its result returns
A_insertReturn(p, ok) ==
  /\ impl = "A"
  /\ calls[p].pc = "insert"
  /\ storeCall(ok)
  /\ LET c == calls[p]
         d == dateOf(c.pnow)
         late == checkIfLate(c.pnow, settings)
         row == [NoRecord EXCEPT !.employee_id = c.emp, !.date = d,
                                 !.first_check_in = c.pnow,
                                 !.is_late = late.isLate,
                                 !.late_duration = late.lateDuration]
         done == ok /\ insertAllowed(attendance_records, c.emp, d)
         threw == ~done \/ afterWrite(channels, isMountedRef) = "throws"
         info == report(p, c.pnow) @@
                 [isValid |-> TRUE, canProceed |-> TRUE, failed |-> ~done,
                  wrote |-> done, caught |-> threw]
     IN /\ attendance_records' =
             IF done THEN insertRow(attendance_records, row)
             ELSE attendance_records
        /\ event(IF done THEN "written" ELSE "error", c.code, info)
        /\ returns(threw)
  /\ finish(p)
  /\ UNCHANGED <<impl, now, isOnline, scanCache, lastScanRef, scans,
                 lastReject>>

\* the update of the day's record is executed and its result returns
A_updateReturn(p, ok) ==
  /\ impl = "A"
  /\ calls[p].pc = "update"
  /\ storeCall(ok)
  /\ LET c == calls[p]
         updateData ==
           IF c.action = "second_check_out"
           THEN [second_check_out |-> c.pnow,
                 total_hours |-> calculateTotalHours(c.att, c.pnow)]
           ELSE (c.action :> c.pnow)
         threw == ~ok \/ afterWrite(channels, isMountedRef) = "throws"
         info == report(p, c.pnow) @@
                 [isValid |-> TRUE, canProceed |-> TRUE, failed |-> ~ok,
                  wrote |-> ok,
                  wroteHours |-> ok /\ "total_hours" \in DOMAIN updateData,
                  caught |-> threw]
     IN /\ attendance_records' =
             IF ok THEN updateRow(attendance_records, c.att.id, updateData)
             ELSE attendance_records
        /\ event(IF ok THEN "written" ELSE "error", c.code, info)
        /\ returns(threw)
  /\ finish(p)
  /\ UNCHANGED <<impl, now, isOnline, scanCache, lastScanRef, scans,
                 lastReject>>

\* the steps of the first component: codes scanned, outcomes of the store
\* calls, gaps between callbacks, number of callbacks
NextA(C, F, G, max) ==
  \/ \E c \in C, g \in G : A_handleScanResult(c, g, max)
  \/ \E p \in Slots, ok \in F : A_employeeLookupReturn(p, ok)
  \/ \E p \in Slots, ok \in F : A_validateFetchExec(p, ok)
  \/ \E p \in Slots : A_validateReturn(p)
  \/ \E p \in Slots, ok \in F : A_processFetchReturn(p, ok)
  \/ \E p \in Slots, ok \in F : A_insertReturn(p, ok)
  \/ \E p \in Slots, ok \in F : A_updateReturn(p, ok)

InitA == channelsAtRest /\ Init /\ impl = "A" /\ othersAtRest

\* the first component, every code, store calls that may fail
SpecA == InitA /\ [][NextA(Codes, BOOLEAN, Gaps, MaxScans)]_vars

\* the first component scanning the code of e1 against a store that answers
InitA1 == InitA /\ isOnline

SpecA1 == InitA1 /\ [][NextA({"c1"}, {TRUE}, Gaps, MaxRaceScans)]_vars

\* the first component scanning the code of e1 at once or across the
\* cooldown, store calls that may fail
SpecA1F == InitA1 /\ [][NextA({"c1"}, BOOLEAN, CooldownGaps, MaxScans)]_vars

\* ================================================ second component (B)

\* a code that stays suppressed once it was seen
isRecentlySeen_forever(c, t) == lastScanRef[c] # 0

\* isRecentlySeen(qrCode)
isRecentlySeen(c, t) ==
  lastScanRef[c] # 0 /\ t - lastScanRef[c] < COOLDOWN_SCAN

\* handleScan up to its first store call
B_handleScan(c, g, max) ==
  /\ impl = "B"
  /\ capturing
  /\ scans < max
  /\ tick(g)
  /\ scans' = scans + 1
  /\ LET t == now'
         info == [t |-> t, prev |-> lastScanRef[c],
                  overlap |-> awaitingValidation(c)]
     IN IF isRecentlySeen(c, t)
        THEN \* return, before the status is touched
             /\ event("suppressed", c, info)
             /\ UNCHANGED <<lastScanRef, calls>>
             /\ continues
        ELSE /\ lastScanRef' = [lastScanRef EXCEPT ![c] = t]
             /\ \E p \in Slots : calls[p].pc = "idle"
             /\ calls' = [calls EXCEPT ![freeSlot] =
                  [Idle EXCEPT !.pc = "lookup", !.code = c,
                               !.afterComplete = completeFor(c)]]
             /\ event("started", c, info)
             /\ begins
  /\ UNCHANGED <<impl, isOnline, attendance_records, scanCache, failures,
                 lastReject>>

\* validateQRCode returns; processAttendance takes today and sends its fetch
B_validateQRCodeReturn(p, ok) ==
  /\ impl = "B"
  /\ calls[p].pc = "lookup"
  /\ storeCall(ok)
  /\ LET emp == IF ok THEN findEmployee(calls[p].code) ELSE NoEmployee
     IN IF emp = NoEmployee
        THEN \* throw new Error('Failed to validate QR code')
             /\ finish(p)
             /\ event("notfound", calls[p].code,
                      [failed |-> ~ok, afterComplete |-> calls[p].afterComplete,
                       slot |-> p, caught |-> TRUE])
             /\ UNCHANGED now
             /\ returns(TRUE)
        ELSE /\ tick(Lat)
             /\ calls' = [calls EXCEPT ![p].pc = "fetch", ![p].emp = emp,
                                       ![p].vnow = now']
             /\ quiet
             /\ continues
  /\ UNCHANGED <<impl, isOnline, attendance_records, scanCache, lastScanRef,
                 scans, lastReject>>

\* the store executes the fetch of processAttendance
B_fetchExec(p, ok) ==
  /\ impl = "B"
  /\ calls[p].pc = "fetch"
  /\ storeCall(ok)
  /\ calls' = [calls EXCEPT
       ![p].pc = "fetched",
       ![p].err = ~ok,
       ![p].att = IF ok THEN fetchAttendance(attendance_records, calls[p].emp,
                                             dateOf(calls[p].vnow))
                  ELSE NoRecord]
  /\ quiet
  /\ UNCHANGED <<impl, now, isOnline, attendance_records, scanCache,
                 lastScanRef, scans, lastReject>>
  /\ continues

\* the decision processAttendance takes from the fetched record at time t:
\* the action, whether it may proceed, and the row it upserts
B_decide(att, emp, today, t) ==
  IF att.id = 0
  THEN [action |-> "first_check_in", canProceed |-> TRUE, hours |-> TRUE,
        row |-> [NoRecord EXCEPT !.employee_id = emp, !.date = today,
                                 !.first_check_in = t,
                                 !.is_late = isLate(t, settings),
                                 !.total_hours = 0]]
  ELSE IF att.first_check_out = 0
  THEN IF t - att.first_check_in < CHECKIN_TO_CHECKOUT_B
       THEN [action |-> "first_check_out", canProceed |-> FALSE,
             hours |-> FALSE, row |-> att]
       ELSE [action |-> "first_check_out", canProceed |-> TRUE,
             hours |-> TRUE,
             row |-> [att EXCEPT !.first_check_out = t,
                        !.total_hours = calculateHours(att.first_check_in, t)]]
  ELSE IF att.second_check_in = 0
  THEN [action |-> "second_check_in", canProceed |-> TRUE, hours |-> FALSE,
        row |-> [att EXCEPT !.second_check_in = t]]
  ELSE IF att.second_check_out = 0
  THEN [action |-> "second_check_out", canProceed |-> TRUE, hours |-> TRUE,
        row |-> [att EXCEPT !.second_check_out = t,
                   !.total_hours =
                      calculateHours(att.first_check_in, att.first_check_out)
                      + calculateHours(att.second_check_in, t)]]
  ELSE [action |-> "complete", canProceed |-> FALSE, hours |-> FALSE,
        row |-> att]

\* the fetch returns; processAttendance takes now, decides, and sends the
\* upsert (after isLate, for a new record)
B_fetchReturn(p) ==
  /\ impl = "B"
  /\ calls[p].pc = "fetched"
  /\ tick(Lat)
  /\ LET c == calls[p]
         d == B_decide(c.att, c.emp, dateOf(c.vnow), now')
         info == [report(p, now') EXCEPT !.nextAction = d.action] @@
                 [isValid |-> ~c.err /\ d.canProceed,
                  canProceed |-> ~c.err /\ d.canProceed, failed |-> c.err,
                  caught |-> c.err \/ ~d.canProceed]
     IN IF c.err
        THEN \* throw new Error('Failed to check existing attendance')
             finish(p) /\ event("error", c.code, info) /\ returns(TRUE)
        ELSE /\ event("validated", c.code, info)
             /\ IF d.canProceed
                THEN /\ calls' = [calls EXCEPT ![p].pc = "upsert",
                                    ![p].pnow = now', ![p].action = d.action,
                                    ![p].row = d.row]
                     /\ continues
                ELSE \* throw new Error(...)
                     finish(p) /\ returns(TRUE)
  /\ UNCHANGED <<impl, isOnline, attendance_records, scanCache, lastScanRef,
                 scans, failures, lastReject>>

\* .upsert(row): a row without id is inserted, a row with id replaces the
\* stored row of that id
upsertAllowed(tbl, row) ==
  row.id # 0 \/ insertAllowed(tbl, row.employee_id, row.date)

upsertRow(tbl, row) ==
  IF row.id = 0 THEN insertRow(tbl, row)
  ELSE [i \in 1..Len(tbl) |-> IF tbl[i].id = row.id THEN row ELSE tbl[i]]

\* the upsert is executed and its result returns
B_upsertReturn(p, ok) ==
  /\ impl = "B"
  /\ calls[p].pc = "upsert"
  /\ storeCall(ok)
  /\ LET c == calls[p]
         done == ok /\ upsertAllowed(attendance_records, c.row)
         d == B_decide(c.att, c.emp, c.row.date, c.pnow)
         info == report(p, c.pnow) @@
                 [isValid |-> TRUE, canProceed |-> TRUE, failed |-> ~done,
                  wrote |-> done, wroteHours |-> done /\ d.hours,
                  caught |-> ~done]
     IN /\ attendance_records' =
             IF done THEN upsertRow(attendance_records, c.row)
             ELSE attendance_records
        /\ event(IF done THEN "written" ELSE "error", c.code, info)
        /\ returns(~done)
  /\ finish(p)
  /\ UNCHANGED <<impl, now, isOnline, scanCache, lastScanRef, scans,
                 lastReject>>

NextB(C, F, G, max) ==
  \/ \E c \in C, g \in G : B_handleScan(c, g, max)
  \/ \E p \in Slots, ok \in F : B_validateQRCodeReturn(p, ok)
  \/ \E p \in Slots, ok \in F : B_fetchExec(p, ok)
  \/ \E p \in Slots : B_fetchReturn(p)
  \/ \E p \in Slots, ok \in F : B_upsertReturn(p, ok)

InitB == channelsAtRest /\ Init /\ impl = "B" /\ isOnline /\ othersAtRest

\* the second component, every code, store calls that may fail
SpecB == InitB /\ [][NextB(Codes, BOOLEAN, Gaps, MaxScans)]_vars

\* the second component scanning the code of e1 against a store that answers
SpecB1 == InitB /\ [][NextB({"c1"}, {TRUE}, Gaps, MaxRaceScans)]_vars

\* the second component with the code of e1 held in view: detections follow
\* each other at once, half a scan cooldown or one scan cooldown apart
HeldGaps == {0, COOLDOWN_SCAN \div 2, COOLDOWN_SCAN}
SpecBHeld == InitB /\ [][NextB({"c1"}, {TRUE}, HeldGaps, MaxScans)]_vars

\* the components under any settings, scanning the code of e1 against a
\* store that answers
InitAL ==
  /\ channelsAtRest
  /\ Init /\ impl = "A" /\ isOnline
  /\ fbEnv = [audio |-> TRUE, vibrate |-> TRUE]
  /\ perfAtRest
  /\ lifeIs(scannerRunning(impl))
  /\ componentsAtRest

SpecAL == InitAL /\ [][NextA({"c1"}, {TRUE}, CooldownGaps, MaxScans)]_vars

\* the second component from a day on which e1 has not checked out yet
InitBL ==
  /\ channelsAtRest
  /\ Init /\ impl = "B" /\ isOnline
  /\ fbEnv = [audio |-> TRUE, vibrate |-> TRUE]
  /\ perfAtRest
  /\ lifeIs(scannerRunning(impl))
  /\ componentsAtRest
  /\ \A i \in 1..Len(attendance_records) :
        attendance_records[i].first_check_out = 0

SpecBL == InitBL /\ [][NextB({"c1"}, {TRUE}, CooldownGaps, MaxScans)]_vars

\* ------------------------------------------------- a day of one employee
\* the first component on a day with work start 09:00 and threshold 0: e1,
\* who has no record, scans in the minutes 09:05, 09:20, 09:21, 09:23 and
\* 17:00, each scan after the one before has ended
ScenarioMinutes == <<9 * 60 + 5, 9 * 60 + 20, 9 * 60 + 21, 9 * 60 + 23, 17 * 60>>

\* the second of the minute at which a scan is recognised, in ms
ScenarioSeconds == {0, 30 * 1000}

ScenarioSettings == [work_start_time |-> 9 * 60, late_threshold |-> 0]

InitScenario ==
  /\ impl = "A"
  /\ now = ScenarioMinutes[1] * MinuteMs
  /\ isOnline = TRUE
  /\ settings = ScenarioSettings
  /\ horizon = (ScenarioMinutes[Len(ScenarioMinutes)] + 1) * MinuteMs
  /\ attendance_records = <<>>
  /\ scanCache = [c \in Codes |-> 0]
  /\ lastScanRef = [c \in Codes |-> 0]
  /\ calls = [p \in Slots |-> Idle]
  /\ scans = 0
  /\ failures = 0
  /\ ev = NoEvent
  /\ lastReject = [at |-> 0, remaining |-> 0, id |-> 0]
  /\ lastFeedbackTime = 0
  /\ fbEnv = [audio |-> TRUE, vibrate |-> TRUE]
  /\ fbLog = <<>>
  /\ performanceMetrics = NoMetrics
  /\ performanceHistory = <<>>
  /\ recorded = <<>>
  /\ perfCalls = 0
  /\ lifeIs(scannerRunning("A"))
  /\ flashEnabled = FALSE
  /\ lightLevel = 50
  /\ lightLog = <<>>
  /\ device = PlainDevice
  /\ deviceCapabilities = NoProfile
  /\ probes = 0
  /\ cameraCalls = <<>>
  /\ cameraLog = <<>>
  /\ channels = WorkingChannels
  /\ both = [A |-> NoRecord, B |-> NoRecord,
              acceptedA |-> FALSE, acceptedB |-> FALSE]

\* the next scan of the day is recognised at second j of its minute
ScenarioScan(j) ==
  /\ scans < Len(ScenarioMinutes)
  /\ \A p \in Slots : calls[p].pc = "idle"
  /\ ScenarioMinutes[scans + 1] * MinuteMs + j >= now
  /\ A_handleScanResult("c1", ScenarioMinutes[scans + 1] * MinuteMs + j - now,
                        Len(ScenarioMinutes))

NextScenario ==
  \/ \E j \in ScenarioSeconds : ScenarioScan(j)
  \/ \E p \in Slots : A_employeeLookupReturn(p, TRUE)
  \/ \E p \in Slots : A_validateFetchExec(p, TRUE)
  \/ \E p \in Slots : A_validateReturn(p)
  \/ \E p \in Slots : A_processFetchReturn(p, TRUE)
  \/ \E p \in Slots : A_insertReturn(p, TRUE)
  \/ \E p \in Slots : A_updateReturn(p, TRUE)

SpecScenario == InitScenario /\ [][NextScenario]_vars

\* either component
Next == NextA(Codes, BOOLEAN, Gaps, MaxScans) \/ NextB(Codes, BOOLEAN, Gaps, MaxScans)

Spec == Init /\ [][Next]_vars

\* ====================================================== FeedbackSystem
\* (src/unnamed/part_002, class FeedbackSystem)

MaxFeedbackCalls == 3      \* provideFeedback calls per behaviour

\* private feedbackCooldown: number = 2000
feedbackCooldown == 2000

\* time between two provideFeedback calls
FeedbackGaps == {500, 1500, feedbackCooldown}

FeedbackTypes == {"success", "error", "warning"}

\* the channel whose platform call fails during a provideFeedback call
ChannelFailures == {"none", "audio", "haptic", "visual"}

\* a cooldown test that never holds
inFeedbackCooldown_never(t, last) == FALSE

\* if (now - this.lastFeedbackTime < this.feedbackCooldown) return
inFeedbackCooldown(t, last) == t - last < feedbackCooldown

\* each channel call: whether the channel was triggered, and whether the
\* call threw (rejected) to its caller
playTeakSound(fail) ==
  [triggered |-> IF fbEnv.audio /\ fail # "audio" THEN {"audio"} ELSE {},
   threw |-> FALSE]

triggerHapticFeedback(fail) ==
  [triggered |-> IF fbEnv.vibrate /\ fail # "haptic" THEN {"haptic"} ELSE {},
   threw |-> FALSE]

showVisualConfirmation(element, fail) ==
  [triggered |-> IF element /\ fail # "visual" THEN {"visual"} ELSE {},
   threw |-> element /\ fail = "visual"]

\* if ('vibrate' in navigator) navigator.vibrate(pattern), outside any try
vibrate(fail) ==
  [triggered |-> IF fbEnv.vibrate /\ fail # "haptic" THEN {"haptic"} ELSE {},
   threw |-> fbEnv.vibrate /\ fail = "haptic"]

\* the switch of provideFeedback
dispatch(type, element, fail) ==
  IF type = "success"
  THEN LET a == playTeakSound(fail)
           h == triggerHapticFeedback(fail)
           v == showVisualConfirmation(element, fail)
       IN [triggered |-> a.triggered \cup h.triggered \cup v.triggered,
           threw |-> a.threw \/ h.threw \/ v.threw]
  ELSE IF type = "error"
  THEN LET h == triggerHapticFeedback(fail)
           d == vibrate(fail)
       IN [triggered |-> h.triggered \cup d.triggered,
           threw |-> h.threw \/ d.threw]
  ELSE vibrate(fail)

\* provideFeedback(type, element), called g ms after the last clock reading
provideFeedback(type, element, g, fail) ==
  /\ Len(fbLog) < MaxFeedbackCalls
  /\ tick(g)
  /\ LET t == now'
         entry == [t |-> t, type |-> type, before |-> lastFeedbackTime,
                   suppressed |-> TRUE, triggered |-> {}, threw |-> FALSE,
                   element |-> element, fail |-> fail]
     IN IF inFeedbackCooldown(t, lastFeedbackTime)
        THEN /\ fbLog' = Append(fbLog, entry)
             /\ UNCHANGED lastFeedbackTime
        ELSE LET d == dispatch(type, element, fail)
             IN /\ lastFeedbackTime' = t
                /\ fbLog' = Append(fbLog,
                     [entry EXCEPT !.suppressed = FALSE,
                                   !.triggered = d.triggered,
                                   !.threw = d.threw])
  /\ UNCHANGED <<impl, isOnline, attendance_records, scanCache, lastScanRef,
                 calls, scans, failures, ev, lastReject, fbEnv>>
  /\ UNCHANGED <<fixedVars, perfVars, lifeVars, laterVars>>

NextF(Fails) ==
  \E type \in FeedbackTypes, element \in BOOLEAN, g \in FeedbackGaps,
     fail \in Fails : provideFeedback(type, element, g, fail)

InitF ==
  /\ channelsAtRest
  /\ Init /\ impl = "A" /\ isOnline /\ attendance_records = <<>>
  /\ settings = MigrationSettings
  /\ perfAtRest
  /\ lifeIs(scannerRunning(impl))
  /\ componentsAtRest

\* FeedbackSystem with platform calls that may fail
SpecF == InitF /\ [][NextF(ChannelFailures)]_vars

\* FeedbackSystem with platform calls that work
SpecF0 == InitF /\ [][NextF({"none"})]_vars

\* =================================================== ScannerPerformance
\* (src/src/lib/scannerPerformance.ts, the calls of the monitor)

\* the scanner at rest while the monitor is called
scannerVars == <<impl, isOnline, attendance_records, scanCache, lastScanRef,
                 calls, scans, failures, ev, lastReject>>

perfCall ==
  /\ perfCalls < MaxRecords
  /\ perfCalls' = perfCalls + 1
  /\ tick(1)
  /\ UNCHANGED <<scannerVars, feedbackVars, fixedVars, lifeVars, laterVars>>

record(eventName, data) ==
  /\ performanceHistory' = addToHistory(performanceHistory, now', eventName, data)
  /\ recorded' = Append(recorded,
                        [timestamp |-> now', event |-> eventName, data |-> data])

recordScanAttempt ==
  /\ perfCall
  /\ performanceMetrics' =
       [performanceMetrics EXCEPT !.scanAttempts = @ + 1,
                                  !.lastScanTime = now']
  /\ UNCHANGED <<performanceHistory, recorded>>

recordSuccessfulScan(processingTime) ==
  /\ perfCall
  /\ LET totalScans == performanceMetrics.successfulScans + 1
     IN performanceMetrics' =
          [performanceMetrics EXCEPT
             !.successfulScans = totalScans,
             !.averageProcessingTime =
                (@ * (totalScans - 1) + processingTime) \div totalScans]
  /\ record("scan_success", <<processingTime>>)

recordError(errorType, errorMessage) ==
  /\ perfCall
  /\ performanceMetrics' = [performanceMetrics EXCEPT !.errorCount = @ + 1]
  /\ record("error", <<errorType, errorMessage>>)

recordFlickerEvent ==
  /\ perfCall
  /\ performanceMetrics' = [performanceMetrics EXCEPT !.flickerEvents = @ + 1]
  /\ record("flicker", <<>>)

recordCameraRestart ==
  /\ perfCall
  /\ performanceMetrics' = [performanceMetrics EXCEPT !.cameraRestarts = @ + 1]
  /\ record("camera_restart", <<>>)

NextP ==
  \/ recordScanAttempt
  \/ \E processingTime \in ProcessingTimes : recordSuccessfulScan(processingTime)
  \/ \E errorType \in ErrorTypes : recordError(errorType, "message")
  \/ recordFlickerEvent
  \/ recordCameraRestart

InitP ==
  /\ channelsAtRest
  /\ Init /\ impl = "A" /\ isOnline /\ attendance_records = <<>>
  /\ settings = MigrationSettings
  /\ fbEnv = [audio |-> TRUE, vibrate |-> TRUE]
  /\ lifeIs(scannerRunning(impl))
  /\ componentsAtRest

\* the monitor alone, fresh or with events already recorded
SpecP == InitP /\ [][NextP]_vars

\* =============================================== the scanner's lifecycle
\* (QRScanner.tsx: mount effect 70-107, initializeScanner 109-254,
\* handleScannerError 843-879, cleanup 919-981; second component 1271-1325
\* and 1579-1590)

\* what the lifecycle leaves alone
sessionVars == <<now, impl, isOnline, attendance_records, calls, scans,
                 failures, ev, lastReject, feedbackVars, fixedVars, perfVars,
                 laterVars>>

setRun(r, run) == runs' = [runs EXCEPT ![r] = run]

\* initializeScanner up to its first await, entered with initializingRef =
\* initializing and the dialog in state dialog: it returns at once when the
\* component is unmounted or a run is under way, fails on a missing video
\* element (catch: handleScannerError, which sets the error state and opens
\* the dialog; finally: initializingRef = false), and otherwise clears the
\* error state and waits for the video element to be laid out
beginInitialize(initializing, dialog) ==
  IF ~isMountedRef \/ initializing
  THEN [pc |-> "done", initializingRef |-> initializing, error |-> error,
        dialogOpen |-> dialog, scannerStatus |-> scannerStatus]
  ELSE IF ~videoRendered(error)
  THEN [pc |-> "done", initializingRef |-> FALSE, error |-> TRUE,
        dialogOpen |-> TRUE, scannerStatus |-> scannerStatus]
  ELSE [pc |-> "waitRender", initializingRef |-> TRUE, error |-> FALSE,
        dialogOpen |-> dialog, scannerStatus |-> "initializing"]

\* initializeAsync after initializeScanner has returned: the run of the
\* mount effect calls startPerformanceMonitoring, which sets the metrics
\* interval unless the component is unmounted; ivs are the intervals so far
afterInitialize(fromMount, ivs) ==
  IF fromMount /\ isMountedRef
  THEN /\ intervals' = Append(ivs, Interval("metrics", TRUE))
       /\ metricsIntervalRef' = Len(ivs) + 1
  ELSE /\ intervals' = ivs
       /\ UNCHANGED metricsIntervalRef

\* the catch and finally blocks of initializeScanner
initializeFailed ==
  /\ initializingRef' = FALSE
  /\ error' = (error \/ isMountedRef)
  /\ dialogOpen' = (dialogOpen \/ isMountedRef)

\* initializeAsync: the 500 ms delay is over
A_delayReturn(r) ==
  /\ impl = "A"
  /\ r \in DOMAIN runs /\ runs[r].pc = "delay"
  /\ IF ~isMountedRef
     THEN /\ setRun(r, Run("done", 0, TRUE))
          /\ UNCHANGED <<initializingRef, error, scannerStatus, dialogOpen,
                         intervals, metricsIntervalRef>>
     ELSE LET b == beginInitialize(initializingRef, dialogOpen)
          IN /\ setRun(r, Run(b.pc, 0, TRUE))
             /\ initializingRef' = b.initializingRef
             /\ error' = b.error
             /\ scannerStatus' = b.scannerStatus
             /\ dialogOpen' = b.dialogOpen
             /\ IF b.pc = "done"
                THEN afterInitialize(TRUE, intervals)
                ELSE UNCHANGED <<intervals, metricsIntervalRef>>
  /\ UNCHANGED <<isMountedRef, scannerRef, qrScanners, lightDetectionRef,
                 srcObject, closeLog, captureErrors, retries>>
  /\ UNCHANGED <<sessionVars, scanCache, lastScanRef>>

\* initializeScanner: the video element is laid out; the QrScanner is
\* created and start() is called
A_renderReturn(r) ==
  /\ impl = "A"
  /\ r \in DOMAIN runs /\ runs[r].pc = "waitRender"
  /\ IF ~isMountedRef \/ ~videoRendered(error)
     THEN /\ setRun(r, Run("done", 0, runs[r].fromMount))
          /\ initializeFailed
          /\ afterInitialize(runs[r].fromMount, intervals)
          /\ UNCHANGED <<scannerRef, qrScanners>>
     ELSE /\ qrScanners' = Append(qrScanners, QrScanner(FALSE, FALSE))
          /\ scannerRef' = Len(qrScanners) + 1
          /\ setRun(r, Run("starting", Len(qrScanners) + 1, runs[r].fromMount))
          /\ UNCHANGED <<initializingRef, error, dialogOpen, intervals,
                         metricsIntervalRef>>
  /\ UNCHANGED <<isMountedRef, lightDetectionRef, srcObject, scannerStatus,
                 closeLog, captureErrors, retries>>
  /\ UNCHANGED <<sessionVars, scanCache, lastScanRef>>

\* initializeScanner: start() has settled
A_startReturn(r, ok) ==
  /\ impl = "A"
  /\ r \in DOMAIN runs /\ runs[r].pc = "starting"
  /\ LET s == runs[r].scanner
         fromMount == runs[r].fromMount
     IN /\ setRun(r, Run("done", s, fromMount))
        /\ IF ok /\ isMountedRef /\ videoRendered(error)
           THEN \* ready: startLightLevelMonitoring
                /\ qrScanners' = [qrScanners EXCEPT ![s].started = TRUE]
                /\ srcObject' = TRUE
                /\ lightDetectionRef' = Len(intervals) + 1
                /\ afterInitialize(fromMount,
                                   Append(intervals, Interval("light", TRUE)))
                /\ initializingRef' = FALSE
                /\ scannerStatus' = "ready"
                /\ UNCHANGED <<error, dialogOpen>>
           ELSE \* start failed, or the final verification stops and
                \* destroys the scanner
                /\ qrScanners' = IF ok
                                 THEN [qrScanners EXCEPT
                                         ![s] = QrScanner(FALSE, TRUE)]
                                 ELSE qrScanners
                /\ initializeFailed
                /\ afterInitialize(fromMount, intervals)
                /\ UNCHANGED <<srcObject, lightDetectionRef, scannerStatus>>
  /\ UNCHANGED <<isMountedRef, scannerRef, closeLog, captureErrors, retries>>
  /\ UNCHANGED <<sessionVars, scanCache, lastScanRef>>

\* handleVideoError: the video element a scanner was created on reports an
\* error; handleScannerError shows it
A_videoError ==
  /\ impl = "A"
  /\ isMountedRef
  /\ captureErrors < MaxCaptureErrors
  /\ \E s \in DOMAIN qrScanners : ~qrScanners[s].destroyed
  /\ captureErrors' = captureErrors + 1
  /\ error' = TRUE
  /\ dialogOpen' = TRUE
  /\ UNCHANGED <<isMountedRef, initializingRef, scannerRef, qrScanners,
                 intervals, metricsIntervalRef, lightDetectionRef, srcObject,
                 scannerStatus, runs, closeLog, retries>>
  /\ UNCHANGED <<sessionVars, scanCache, lastScanRef>>

\* a retry: initializingRef.current = false; initializeScanner()
retry(dialog) ==
  /\ retries < MaxRetries
  /\ retries' = retries + 1
  /\ LET b == beginInitialize(FALSE, dialog)
     IN /\ runs' = Append(runs, Run(b.pc, 0, FALSE))
        /\ initializingRef' = b.initializingRef
        /\ error' = b.error
        /\ scannerStatus' = b.scannerStatus
        /\ dialogOpen' = b.dialogOpen
  /\ UNCHANGED <<isMountedRef, scannerRef, qrScanners, intervals,
                 metricsIntervalRef, lightDetectionRef, srcObject, closeLog,
                 captureErrors>>
  /\ UNCHANGED <<sessionVars, scanCache, lastScanRef>>

\* 'Try Again' of the dialog of handleScannerError (viaDialog), which
\* closes the dialog, or the Retry button of the error box
A_retry(viaDialog) ==
  /\ impl = "A"
  /\ isMountedRef
  /\ IF viaDialog THEN dialogOpen ELSE error
  /\ retry(IF viaDialog THEN FALSE ELSE dialogOpen)

\* 'Diagnostics' of the dialog, or 'Try Again' after the unmount
A_dialogDismissed ==
  /\ impl = "A"
  /\ dialogOpen
  /\ dialogOpen' = FALSE
  /\ UNCHANGED <<isMountedRef, initializingRef, scannerRef, qrScanners,
                 intervals, metricsIntervalRef, lightDetectionRef, srcObject,
                 error, scannerStatus, runs, closeLog, captureErrors,
                 retries>>
  /\ UNCHANGED <<sessionVars, scanCache, lastScanRef>>

\* cleanup of the first component; failScanner: scannerRef.current.stop()
\* throws, failVideo: videoRef.current.pause() throws
A_cleanup(failScanner, failVideo) ==
  LET hasScanner == scannerRef # 0
      hasVideo == videoRendered(error)
      hasTimer == metricsIntervalRef # 0 \/ lightDetectionRef # 0
  IN /\ qrScanners' =
          IF hasScanner /\ ~failScanner
          THEN [qrScanners EXCEPT ![scannerRef] = QrScanner(FALSE, TRUE)]
          ELSE qrScanners
     /\ scannerRef' = 0
     /\ srcObject' = IF hasVideo /\ ~failVideo THEN FALSE ELSE srcObject
     /\ intervals' =
          [i \in DOMAIN intervals |->
             IF i \in {metricsIntervalRef, lightDetectionRef}
             THEN Interval(intervals[i].kind, FALSE) ELSE intervals[i]]
     /\ metricsIntervalRef' = 0
     /\ lightDetectionRef' = 0
     /\ initializingRef' = FALSE
     /\ closeLog' = (IF hasScanner THEN <<"capture">> ELSE <<>>)
                    \o (IF hasVideo THEN <<"stream">> ELSE <<>>)
                    \o (IF hasTimer THEN <<"timers">> ELSE <<>>)
                    \o <<"cache">>

\* the scanner is closed: the cleanup of the mount effect runs, and the
\* state of the component, scanCache included, goes with the component
A_close(failScanner, failVideo) ==
  /\ impl = "A"
  /\ isMountedRef
  /\ isMountedRef' = FALSE
  /\ A_cleanup(failScanner, failVideo)
  /\ scanCache' = [c \in Codes |-> 0]
  /\ UNCHANGED <<error, scannerStatus, dialogOpen, runs, captureErrors,
                 retries>>
  /\ UNCHANGED <<sessionVars, lastScanRef>>

NextLA ==
  \/ \E r \in 1..(MaxRetries + 1) : A_delayReturn(r)
  \/ \E r \in 1..(MaxRetries + 1) : A_renderReturn(r)
  \/ \E r \in 1..(MaxRetries + 1), ok \in BOOLEAN : A_startReturn(r, ok)
  \/ A_videoError
  \/ \E viaDialog \in BOOLEAN : A_retry(viaDialog)
  \/ A_dialogDismissed
  \/ \E failScanner \in BOOLEAN, failVideo \in BOOLEAN :
        A_close(failScanner, failVideo)

InitLA ==
  /\ channelsAtRest
  /\ Init /\ impl = "A" /\ isOnline /\ attendance_records = <<>>
  /\ settings = MigrationSettings
  /\ fbEnv = [audio |-> TRUE, vibrate |-> TRUE]
  /\ recorded = <<>>
  /\ lifeIs(justMounted(impl))
  /\ componentsAtRest

\* the first component from its mount to its unmount
SpecLA == InitLA /\ [][NextLA]_vars

\* second component, initializeScanner: start() has settled
B_startReturn(ok) ==
  /\ impl = "B"
  /\ runs[1].pc = "starting"
  /\ setRun(1, Run("done", 1, TRUE))
  /\ IF ok /\ isMountedRef
     THEN /\ qrScanners' = [qrScanners EXCEPT ![1].started = TRUE]
          /\ srcObject' = TRUE
          /\ intervals' = Append(intervals, Interval("light", TRUE))
          /\ lightDetectionRef' = Len(intervals) + 1
          /\ scannerStatus' = "ready"
     ELSE UNCHANGED <<qrScanners, srcObject, intervals, lightDetectionRef,
                      scannerStatus>>
  /\ UNCHANGED <<isMountedRef, initializingRef, scannerRef,
                 metricsIntervalRef, error, dialogOpen, closeLog,
                 captureErrors, retries>>
  /\ UNCHANGED <<sessionVars, scanCache, lastScanRef>>

\* cleanup of the second component; failScanner: scannerRef.current.stop()
\* throws, and nothing catches it
B_cleanup(failScanner) ==
  IF scannerRef # 0 /\ failScanner
  THEN /\ closeLog' = <<"capture", "cache">>
       /\ UNCHANGED <<qrScanners, scannerRef, intervals, lightDetectionRef>>
  ELSE /\ qrScanners' =
            IF scannerRef # 0
            THEN [qrScanners EXCEPT ![scannerRef] = QrScanner(FALSE, TRUE)]
            ELSE qrScanners
       /\ scannerRef' = 0
       /\ intervals' =
            [i \in DOMAIN intervals |->
               IF i = lightDetectionRef
               THEN Interval(intervals[i].kind, FALSE) ELSE intervals[i]]
       /\ lightDetectionRef' = 0
       /\ closeLog' = (IF scannerRef # 0 THEN <<"capture">> ELSE <<>>)
                      \o (IF lightDetectionRef # 0 THEN <<"timers">> ELSE <<>>)
                      \o <<"cache">>

B_close(failScanner) ==
  /\ impl = "B"
  /\ isMountedRef
  /\ isMountedRef' = FALSE
  /\ B_cleanup(failScanner)
  /\ lastScanRef' = [c \in Codes |-> 0]
  /\ UNCHANGED <<initializingRef, metricsIntervalRef, srcObject, error,
                 scannerStatus, dialogOpen, runs, captureErrors, retries>>
  /\ UNCHANGED <<sessionVars, scanCache>>

NextLB ==
  \/ \E ok \in BOOLEAN : B_startReturn(ok)
  \/ \E failScanner \in BOOLEAN : B_close(failScanner)

InitLB ==
  /\ channelsAtRest
  /\ Init /\ impl = "B" /\ isOnline /\ attendance_records = <<>>
  /\ settings = MigrationSettings
  /\ fbEnv = [audio |-> TRUE, vibrate |-> TRUE]
  /\ recorded = <<>>
  /\ lifeIs(justMounted(impl))
  /\ componentsAtRest

\* the second component from its mount to its unmount
SpecLB == InitLB /\ [][NextLB]_vars

\* ===================================================== the light monitor
\* (QRScanner.tsx: startLightLevelMonitoring 271-294, enableFlash 812-826)

\* the scanning state: setScanning(true) goes with startLightLevelMonitoring
\* (242-243), and setScanning(false) is never reached while mounted
scanning == \E i \in DOMAIN intervals : intervals[i].kind = "light"

\* the scene gets brighter or darker
lightChange(level) ==
  /\ level # lightLevel
  /\ lightLevel' = level
  /\ UNCHANGED <<flashEnabled, lightLog>>
  /\ UNCHANGED <<scannerVars, now, feedbackVars, fixedVars, perfVars, lifeVars,
                 cameraVars, channelVars, equivVars>>

\* the light-monitoring interval fires; ok: turnFlashOn succeeds.  The
\* callback returns at once unless mounted, with a video element and
\* scanning; otherwise it measures the brightness and calls enableFlash
\* below MIN_LIGHT_LEVEL when flashEnabled is false
A_lightSample(ok) ==
  /\ impl = "A"
  /\ Len(lightLog) < MaxSamples
  /\ lightDetectionRef # 0 /\ intervals[lightDetectionRef].active
  /\ LET measures == isMountedRef /\ videoRendered(error)
                      /\ capturedScanning(scanning)
         wantsFlash == measures /\ lightLevel < MIN_LIGHT_LEVEL
                       /\ ~capturedFlashEnabled(flashEnabled)
         turnsOn == wantsFlash /\ scannerRef # 0
     IN /\ lightLog' = Append(lightLog,
                          [level |-> lightLevel, measured |-> measures,
                           flashBefore |-> flashEnabled,
                           turnFlashOn |-> turnsOn])
        /\ flashEnabled' = IF turnsOn /\ ok THEN TRUE ELSE flashEnabled
  /\ UNCHANGED lightLevel
  /\ UNCHANGED <<scannerVars, now, feedbackVars, fixedVars, perfVars, lifeVars,
                 cameraVars, channelVars, equivVars>>

NextLight ==
  \/ \E level \in LightLevels : lightChange(level)
  \/ \E ok \in BOOLEAN : A_lightSample(ok)

InitLight ==
  /\ channelsAtRest
  /\ Init /\ impl = "A" /\ isOnline /\ attendance_records = <<>>
  /\ settings = MigrationSettings
  /\ fbEnv = [audio |-> TRUE, vibrate |-> TRUE]
  /\ perfAtRest
  /\ lifeIs(scannerRunning(impl))
  /\ cameraAtRest

\* the light monitor of a running scanner, in any light, the flash on or off
SpecLight == InitLight /\ [][NextLight]_vars

\* ====================================================== CameraOptimizer
\* (src/src/lib/cameraOptimizer.ts, the calls)

\* getOptimalSettings(userPreferences) is called: detectDeviceCapabilities
\* answers from this.deviceCapabilities when it is set, and otherwise starts
\* a probe (enumerateDevices, getUserMedia)
getOptimalSettingsCall(userPreferences) ==
  /\ Len(cameraLog) + Len(cameraCalls) < MaxCameraCalls
  /\ IF deviceCapabilities # NoProfile
     THEN /\ cameraLog' = Append(cameraLog,
               [userPreferences |-> userPreferences, probed |-> FALSE,
                probeOk |-> TRUE, threw |-> FALSE,
                capabilities |-> deviceCapabilities,
                settings |-> optimalSettingsFor(deviceCapabilities,
                                                userPreferences)])
          /\ UNCHANGED <<cameraCalls, probes>>
     ELSE /\ cameraCalls' = Append(cameraCalls, userPreferences)
          /\ probes' = probes + 1
          /\ UNCHANGED cameraLog
  /\ UNCHANGED <<device, deviceCapabilities>>
  /\ UNCHANGED <<scannerVars, now, feedbackVars, fixedVars, perfVars,
                 lifeVars, lightVars, channelVars, equivVars>>

\* the probe of the oldest waiting call settles; ok: it succeeded
probeReturn(ok) ==
  /\ cameraCalls # <<>>
  /\ LET userPreferences == Head(cameraCalls)
         capabilities == IF ok THEN probedProfile(device) ELSE fallbackProfile
     IN /\ deviceCapabilities' = IF ok THEN capabilities ELSE deviceCapabilities
        /\ cameraLog' = Append(cameraLog,
             [userPreferences |-> userPreferences, probed |-> TRUE,
              probeOk |-> ok, threw |-> FALSE,
              capabilities |-> capabilities,
              settings |-> optimalSettingsFor(capabilities, userPreferences)])
  /\ cameraCalls' = Tail(cameraCalls)
  /\ UNCHANGED <<device, probes>>
  /\ UNCHANGED <<scannerVars, now, feedbackVars, fixedVars, perfVars,
                 lifeVars, lightVars, channelVars, equivVars>>

NextCamera ==
  \/ \E userPreferences \in Preferences : getOptimalSettingsCall(userPreferences)
  \/ \E ok \in BOOLEAN : probeReturn(ok)

InitCamera ==
  /\ channelsAtRest
  /\ Init /\ impl = "A" /\ isOnline /\ attendance_records = <<>>
  /\ settings = MigrationSettings
  /\ fbEnv = [audio |-> TRUE, vibrate |-> TRUE]
  /\ perfAtRest
  /\ lifeIs(scannerRunning(impl))
  /\ lightAtRest

\* the optimizer on any device
SpecCamera == InitCamera /\ [][NextCamera]_vars

\* ===================================================== a scanning session
\* (QRScanner.tsx: handleScanResult 449-531 with the store calls it awaits,
\* the cleanup of the mount effect 101-106)

\* every store call a callback awaits is answered, with a result or with
\* an error
FairA ==
  /\ WF_vars(\E p \in Slots, ok \in BOOLEAN : A_employeeLookupReturn(p, ok))
  /\ WF_vars(\E p \in Slots, ok \in BOOLEAN : A_validateFetchExec(p, ok))
  /\ WF_vars(\E p \in Slots : A_validateReturn(p))
  /\ WF_vars(\E p \in Slots, ok \in BOOLEAN : A_processFetchReturn(p, ok))
  /\ WF_vars(\E p \in Slots, ok \in BOOLEAN : A_insertReturn(p, ok))
  /\ WF_vars(\E p \in Slots, ok \in BOOLEAN : A_updateReturn(p, ok))

\* the first component, every code, store calls that may fail and that are
\* answered in the end
SpecALive == InitA /\ [][NextA(Codes, BOOLEAN, Gaps, MaxScans)]_vars /\ FairA

\* the first component on any device, scanning the code of e1 against a
\* store that answers
InitChannels ==
  /\ cameraAtRest
  /\ Init /\ impl = "A" /\ isOnline
  /\ othersAtRest

SpecChannels ==
  InitChannels /\ [][NextA({"c1"}, {TRUE}, CooldownGaps, MaxScans)]_vars

\* the first component scanning the code of e1 until the scanner is closed;
\* the callbacks in flight go on after that
NextCloseA ==
  \/ NextA({"c1"}, {TRUE}, CooldownGaps, MaxScans)
  \/ \E failScanner \in BOOLEAN, failVideo \in BOOLEAN :
        A_close(failScanner, failVideo)

SpecCloseA == InitA1 /\ [][NextCloseA]_vars

\* =================================================== the two components
\* (QRScanner.tsx: validateAttendanceSequence 346-447 and processAttendance
\* 606-674 of the first, processAttendance 1367-1454 of the second)

MaxBothScans == 6          \* scans of the employee per behaviour

\* time between two scans of the employee: each scan comes after the scan
\* cooldown of both components, and after the scan before it has ended
BothGaps ==
  {SCAN_COOLDOWN, 2 * SCAN_COOLDOWN, MinuteMs, CHECKOUT_TO_CHECKIN_COOLDOWN}

\* a scan of employee emp at time t by the first component, which fetched
\* att: validateAttendanceSequence, then the write of processAttendance
A_scan(att, emp, t, cfg) ==
  LET v == validateAttendanceSequence(att, FALSE, t)
      late == checkIfLate(t, cfg)
  IN [accepted |-> v.canProceed,
      att |-> IF ~v.canProceed THEN att
              ELSE IF v.nextAction = "first_check_in"
              THEN [NoRecord EXCEPT !.id = 1, !.employee_id = emp,
                                    !.date = dateOf(t), !.first_check_in = t,
                                    !.is_late = late.isLate,
                                    !.late_duration = late.lateDuration]
              ELSE IF v.nextAction = "second_check_out"
              THEN [att EXCEPT !.second_check_out = t,
                               !.total_hours = calculateTotalHours(att, t)]
              ELSE [att EXCEPT ![v.nextAction] = t]]

\* the same scan by the second component: processAttendance
B_scan(att, emp, t) ==
  LET d == B_decide(att, emp, dateOf(t), t)
  IN [accepted |-> d.canProceed,
      att |-> IF d.canProceed THEN [d.row EXCEPT !.id = 1] ELSE att]

\* the employee scans at both scanners g after the scan before
scanBoth(g) ==
  /\ scans < MaxBothScans
  /\ tick(g)
  /\ scans' = scans + 1
  /\ LET a == A_scan(both.A, "e1", now', settings)
         b == B_scan(both.B, "e1", now')
     IN both' = [A |-> a.att, B |-> b.att,
                 acceptedA |-> a.accepted, acceptedB |-> b.accepted]
  /\ UNCHANGED <<impl, isOnline, attendance_records, scanCache, lastScanRef,
                 calls, failures, ev, lastReject>>
  /\ UNCHANGED <<feedbackVars, fixedVars, perfVars, lifeVars, lightVars,
                 cameraVars, channelVars>>

NextBoth == \E g \in BothGaps : scanBoth(g)

InitBoth ==
  /\ channelsAtRest
  /\ Init /\ impl = "A" /\ isOnline /\ attendance_records = <<>>
  /\ othersAtRest

\* a day of e1, who has no record yet, at both scanners
SpecBoth == InitBoth /\ [][NextBoth]_vars

\* ================================================================ claims

present(x) == x # 0

\* the timestamps of a row that are present form a prefix of
\* (firstIn, firstOut, secondIn, secondOut) and strictly increase
ordered(r) ==
  /\ present(r.first_check_out) =>
       present(r.first_check_in) /\ r.first_check_in < r.first_check_out
  /\ present(r.second_check_in) =>
       present(r.first_check_out) /\ r.first_check_out < r.second_check_in
  /\ present(r.second_check_out) =>
       present(r.second_check_in) /\ r.second_check_in < r.second_check_out

\* C1: in every daily attendance record the timestamps that are present are
\* strictly increasing (firstIn < firstOut < secondIn < secondOut) and no
\* later timestamp is set while an earlier one is null.
C1_TimestampsOrdered ==
  \A i \in 1..Len(attendance_records) : ordered(attendance_records[i])

\* C2: a detection of a code less than SCAN_COOLDOWN after an accepted
\* detection of the same code is suppressed by handleScanResult: it starts no
\* employee lookup (and so no validation and no write).
C2_RepeatSuppressed ==
  ~ ( /\ ev.kind = "started"
      /\ present(ev.prev)
      /\ ev.prev < ev.t
      /\ ev.t - ev.prev < SCAN_COOLDOWN )

\* C3: a recognition callback that fires while an earlier callback for the
\* same code is still awaiting the employee lookup or the sequence
\* validation is suppressed and does not reach the store.
C3_OverlapSuppressed == ~ (ev.kind = "started" /\ ev.overlap)

\* the record a validation decided on has firstOut set and secondIn null
inCooldownStage(att) ==
  present(att.first_check_out) /\ ~present(att.second_check_in)

\* C4: with firstOut set and secondIn null, a scan at time now is accepted
\* as second check-in exactly when now - firstOut >= 3 minutes; a scan with
\* now - firstOut < 3 minutes is rejected and ends without a write.
C4_CooldownGuard ==
  (ev.kind = "validated" /\ ~ev.failed /\ inCooldownStage(ev.att)) =>
     /\ ev.canProceed <=>
          ev.t - ev.att.first_check_out >= CHECKOUT_TO_CHECKIN_COOLDOWN
     /\ ev.canProceed => ev.nextAction = "second_check_in"
     /\ ~ev.canProceed => calls[ev.slot] = Idle /\ ~ev.wrote

cooldownRejection(e) ==
  e.kind = "validated" /\ ~e.canProceed /\ e.nextAction = "second_check_in"

\* C5: every cooldown rejection carries cooldownRemaining = 3 minutes -
\* (now - firstOut), and of two rejections for the same record the one at
\* the later time reports the strictly smaller cooldownRemaining.
C5_RemainingExact ==
  cooldownRejection(ev) =>
    ev.remaining =
      CHECKOUT_TO_CHECKIN_COOLDOWN - (ev.t - ev.att.first_check_out)

C5_RemainingDecreases ==
  (cooldownRejection(ev') /\ lastReject.id = ev'.att.id
     /\ present(lastReject.at) /\ lastReject.at < ev'.t)
  => ev'.remaining < lastReject.remaining

C5_CooldownRemaining ==
  [] C5_RemainingExact /\ [][C5_RemainingDecreases]_vars

\* C6: a scan that fires once secondOut is set on the day's record is
\* rejected as 'complete' and writes nothing.
C6_CompleteIsFinal ==
  ev.afterComplete =>
     /\ ~ev.wrote
     /\ (ev.kind = "validated" /\ ~ev.failed) =>
          ~ev.canProceed /\ ev.nextAction = "complete"

\* C7: a scan whose code matches no employee, or only an inactive one, is
\* rejected as not found: it gets no further than the employee lookup, and
\* no attendance record exists for such a code.
C7_UnknownOrInactiveRejected ==
  /\ \A p \in Slots :
       calls[p].pc \notin {"idle", "lookup"} =>
         findActiveEmployee(calls[p].code) # NoEmployee
  /\ \A i \in 1..Len(attendance_records) :
       \E e \in employees :
          e.id = attendance_records[i].employee_id /\ e.is_active

\* C8: a scan that validation rejects ends there: processAttendance is not
\* entered, nothing is written for it, and the store is as it was.
C8_RejectionEndsScan ==
  (ev.kind = "validated" /\ ~ev.isValid) =>
     calls[ev.slot] = Idle /\ ~ev.wrote

C8_RejectionKeepsStore ==
  (ev'.kind = "validated" /\ ~ev'.isValid) =>
     attendance_records' = attendance_records

C8_RejectedScanHasNoEffect ==
  [] C8_RejectionEndsScan /\ [][C8_RejectionKeepsStore]_vars

\* a validation rejected a scan for the cooldown
C8_Witness ==
  /\ cooldownRejection(ev) /\ ~ev.isValid /\ ev.remaining > 0
  /\ calls[ev.slot] = Idle

\* C9: when a store call of a scan fails (employee lookup, fetch of the
\* validation, fetch or write of processAttendance) the scan is rejected,
\* ends, and has written nothing: the record is as it was.
C9_FailureEndsScan ==
  ev.failed =>
     /\ ev.kind \in {"notfound", "validated", "error"}
     /\ ev.kind = "validated" => ~ev.canProceed
     /\ calls[ev.slot] = Idle
     /\ ~ev.wrote

C9_FailureKeepsStore ==
  ev'.failed => attendance_records' = attendance_records

C10_OneRecordPerDay ==
  \A i, j \in 1..Len(attendance_records) :
     ( /\ attendance_records[i].employee_id = attendance_records[j].employee_id
       /\ attendance_records[i].date = attendance_records[j].date ) => i = j

\* two first scans raced: this one saw no record, and its insert was
\* rejected by the store because the other's row was there
C10_Witness ==
  /\ ev.kind = "error" /\ ev.nextAction = "first_check_in"
  /\ ev.att.id = 0 /\ ev.failed /\ failures = 0
  /\ Len(attendance_records) = 1

TimeFields ==
  {"first_check_in", "first_check_out", "second_check_in", "second_check_out"}

\* C11: each attendance field is written at most once: a timestamp that is
\* non-null keeps its value in every later state of the record.
C11_FieldKept ==
  \A i \in 1..Len(attendance_records) :
     /\ i <= Len(attendance_records')
     /\ \A f \in TimeFields :
          present(attendance_records[i][f]) =>
             attendance_records'[i][f] = attendance_records[i][f]

C11_WrittenOnce == [][C11_FieldKept]_vars

\* C12: of any two provideFeedback calls less than 2000 ms apart only the
\* first triggers a channel; the second triggers none and leaves
\* lastFeedbackTime as it was.
C12_SecondOfPairSuppressed ==
  \A i, j \in 1..Len(fbLog) :
     (i < j /\ fbLog[j].t - fbLog[i].t < feedbackCooldown) =>
        fbLog[j].suppressed /\ fbLog[j].triggered = {}

\* C12 as the code has it: a provideFeedback call less than 2000 ms after
\* the last call that was not suppressed triggers no channel and leaves
\* lastFeedbackTime as it was; any other call is dispatched and sets
\* lastFeedbackTime to its time.
C12_CooldownFromLastDispatch ==
  /\ \A j \in 1..Len(fbLog) :
       IF fbLog[j].t - fbLog[j].before < feedbackCooldown
       THEN fbLog[j].suppressed /\ fbLog[j].triggered = {}
       ELSE ~fbLog[j].suppressed
  /\ \A j \in 1..Len(fbLog) :
       LET after == IF j < Len(fbLog) THEN fbLog[j + 1].before
                    ELSE lastFeedbackTime
       IN after = IF fbLog[j].suppressed THEN fbLog[j].before ELSE fbLog[j].t

\* a call was suppressed for coming less than 2000 ms after a dispatched one
C12_Witness ==
  \E j \in 2..Len(fbLog) :
     /\ fbLog[j].suppressed /\ ~fbLog[j - 1].suppressed
     /\ fbLog[j - 1].triggered # {}
     /\ fbLog[j].before = fbLog[j - 1].t
     /\ lastFeedbackTime = fbLog[j - 1].t

\* (firstOut - firstIn) + (secondOut - secondIn) in hundredths of an hour,
\* rounded to the nearest
hoursOf(r) ==
  round((r.first_check_out - r.first_check_in) +
        (r.second_check_out - r.second_check_in), HundredthHourMs)

\* C13: total_hours is written only by the second check-out transition:
\* a record whose second session is incomplete has no total_hours, and a
\* complete record has (firstOut - firstIn) + (secondOut - secondIn) in
\* hours rounded to 2 decimals.
C13_TotalHours ==
  /\ ev.wroteHours => ev.nextAction = "second_check_out"
  /\ \A i \in 1..Len(attendance_records) :
       LET r == attendance_records[i]
       IN r.total_hours = IF present(r.second_check_out) THEN hoursOf(r)
                          ELSE 0

minuteOfDay(t) == (t % DayMs) \div MinuteMs

\* the last step ended a scan
scanEnded ==
  \/ ev.kind \in {"written", "error", "notfound", "suppressed", "offline"}
  \/ ev.kind = "validated" /\ ~ev.canProceed

\* the last step wrote field f of e1's record in minute m
wroteInMinute(f, m) ==
  /\ ev.kind = "written" /\ ev.nextAction = f
  /\ Len(attendance_records) = 1
  /\ present(attendance_records[1][f])
  /\ minuteOfDay(attendance_records[1][f]) = m

\* C14: with work start 09:00 and grace 0, the scans of 09:05, 09:20,
\* 09:21, 09:23 and 17:00 end, in this order, with: the record created with
\* firstIn = 09:05 and isLate; firstOut = 09:20; a cooldown rejection;
\* secondIn = 09:23; secondOut = 17:00 with totalHours 7.87.
C14_Scenario ==
  scanEnded =>
    /\ scans = 1 => /\ wroteInMinute("first_check_in", ScenarioMinutes[1])
                    /\ attendance_records[1].is_late
    /\ scans = 2 => wroteInMinute("first_check_out", ScenarioMinutes[2])
    /\ scans = 3 => cooldownRejection(ev)
    /\ scans = 4 => wroteInMinute("second_check_in", ScenarioMinutes[4])
    /\ scans = 5 => /\ wroteInMinute("second_check_out", ScenarioMinutes[5])
                    /\ attendance_records[1].total_hours = 787

\* the work start of the day of t, and the time from which a check-in is
\* late: work start plus the configured threshold
workStartOf(t) == atTimeOfDay(t, settings.work_start_time)
lateFrom(t) == workStartOf(t) + settings.late_threshold * MinuteMs

\* C15: the first check-in stores is_late true exactly when firstIn is
\* later than the configured work start plus the configured threshold, and
\* for a late check-in late_duration is the whole minutes from work start
\* to firstIn.
C15_Lateness ==
  ( /\ ev.kind = "written" /\ ev.nextAction = "first_check_in"
    /\ settings.work_start_time # NoSetting ) =>
     LET r == attendance_records[Len(attendance_records)]
     IN /\ r.is_late <=> r.first_check_in > lateFrom(r.first_check_in)
        /\ r.is_late =>
             r.late_duration =
               (r.first_check_in - workStartOf(r.first_check_in)) \div MinuteMs

\* the channels a dispatched call of its type is to trigger
wanted(e) ==
  IF e.type = "success"
  THEN (IF fbEnv.audio THEN {"audio"} ELSE {}) \cup
       (IF fbEnv.vibrate THEN {"haptic"} ELSE {}) \cup
       (IF e.element THEN {"visual"} ELSE {})
  ELSE IF fbEnv.vibrate THEN {"haptic"} ELSE {}

\* C16: provideFeedback never throws, whatever the kind, and on success the
\* failure of one channel leaves the other channels triggered.
C16_NeverThrows ==
  \A j \in 1..Len(fbLog) :
     /\ ~fbLog[j].threw
     /\ (fbLog[j].type = "success" /\ ~fbLog[j].suppressed) =>
           wanted(fbLog[j]) \ {fbLog[j].fail} \subseteq fbLog[j].triggered

\* C17: the performance history holds at most HistoryCap events, and they are
\* the most recently recorded ones, in the order of recording.
C17_HistoryKeepsLatest ==
  /\ Len(performanceHistory) <= HistoryCap
  /\ Len(performanceHistory) =
       (IF Len(recorded) <= HistoryCap THEN Len(recorded) ELSE HistoryCap)
  /\ \A i \in 1..Len(performanceHistory) :
        performanceHistory[i] =
          recorded[Len(recorded) - Len(performanceHistory) + i]

\* events were evicted, and the calls of this behaviour were of several kinds
C17_Witness ==
  /\ Len(recorded) = HistoryCap + 2
  /\ Len(performanceHistory) = HistoryCap
  /\ performanceMetrics.errorCount > 0
  /\ performanceMetrics.successfulScans > 0

\* C18: the minutes m and seconds s of a cooldown rejection message satisfy
\* 0 <= s < 60, and m*60 + s is the remaining cooldown rounded up to whole
\* seconds.
C18_MessageExact ==
  cooldownRejection(ev) =>
    /\ 0 <= ev.message.seconds /\ ev.message.seconds < 60
    /\ ev.message.minutes * 60 + ev.message.seconds =
         (ev.remaining + 999) \div 1000

\* a running scanner is closed in this step
closesRunning ==
  /\ isMountedRef /\ ~isMountedRef'
  /\ scannerRef # 0 /\ qrScanners[scannerRef].started
  /\ lightDetectionRef # 0
  /\ impl = "A" => metricsIntervalRef # 0
  /\ srcObject /\ videoRendered(error)

teardownInOrder(log) ==
  \E a, b, c, d \in DOMAIN log :
     /\ a < b /\ b < c /\ c < d
     /\ log[a] = "capture" /\ log[b] = "timers"
     /\ log[c] = "stream" /\ log[d] = "cache"

\* C19: closing a running scanner stops the capture loop, cancels the interval
\* timers, releases the media stream and discards the dedup cache, in this
\* order, also when a step fails.
C19_TeardownOrder == [][closesRunning => teardownInOrder(closeLog')]_vars

activeScanners == {s \in DOMAIN qrScanners :
                     qrScanners[s].started /\ ~qrScanners[s].destroyed}

activeIntervals(kind) == {i \in DOMAIN intervals :
                            intervals[i].kind = kind /\ intervals[i].active}

\* C20: at most one QrScanner is started and not destroyed, and at most one
\* light-monitoring interval and one metrics interval are active.
C20_SingleCapture ==
  /\ Cardinality(activeScanners) <= 1
  /\ Cardinality(activeIntervals("light")) <= 1
  /\ Cardinality(activeIntervals("metrics")) <= 1

\* a retry was made after an error of the running capture, which still runs
C20_Witness ==
  /\ captureErrors > 0 /\ retries > 0
  /\ \A r \in DOMAIN runs : runs[r].pc = "done"
  /\ Cardinality(activeScanners) = 1
  /\ Cardinality(activeIntervals("light")) = 1
  /\ Cardinality(activeIntervals("metrics")) = 1

C22_LimitedGetsLowest ==
  \A j \in DOMAIN cameraLog :
     (cameraLog[j].capabilities.deviceCount = 1
        \/ ~cameraLog[j].capabilities.hasAdvancedControls)
     => /\ cameraLog[j].settings.resolution = "low"
        /\ cameraLog[j].settings.frameRate = 10

\* C23: the capabilities are probed at most once; a failed probe yields a
\* profile with a single low-resolution camera and no advanced controls, and
\* getOptimalSettings then returns the lowest tier without throwing.
C23_ProbeOnceWithFallback ==
  /\ probes <= 1
  /\ \A j \in DOMAIN cameraLog :
        (cameraLog[j].probed /\ ~cameraLog[j].probeOk) =>
           /\ cameraLog[j].capabilities.deviceCount = 1
           /\ cameraLog[j].capabilities.supportedResolutions = <<"low">>
           /\ ~cameraLog[j].capabilities.hasAdvancedControls
           /\ ~cameraLog[j].threw
           /\ cameraLog[j].settings.resolution = "low"
           /\ cameraLog[j].settings.frameRate = 10

advancedOf(entry) == entry.settings.recommendedConstraints.advanced

advertised(entry, name) ==
  CASE name = "focusMode" -> entry.capabilities.capabilities.focusMode # Absent
    [] name = "exposureMode" ->
         entry.capabilities.capabilities.exposureMode # Absent
    [] name = "whiteBalanceMode" ->
         entry.capabilities.capabilities.whiteBalanceMode # Absent
    [] name = "torch" -> entry.capabilities.capabilities.torch

\* C24: the constraints hold a focus, exposure or white-balance entry only
\* when the device advertises the capability, never torch: true, and torch:
\* false whenever the device advertises a torch.
C24_ConstraintsFollowCapabilities ==
  \A j \in DOMAIN cameraLog :
     LET advanced == advancedOf(cameraLog[j])
     IN /\ \A i \in DOMAIN advanced :
             /\ advertised(cameraLog[j], advanced[i].name)
             /\ advanced[i].name = "torch" => advanced[i].value = "false"
        /\ advertised(cameraLog[j], "torch") =>
             \E i \in DOMAIN advanced :
                advanced[i].name = "torch" /\ advanced[i].value = "false"

\* two calls returned constraints for a device whose only advanced control
\* is the torch
C24_Witness ==
  /\ Len(cameraLog) = 2
  /\ cameraLog[1].probeOk /\ cameraLog[2].probeOk
  /\ \E j \in DOMAIN cameraLog :
        /\ advertised(cameraLog[j], "torch")
        /\ ~advertised(cameraLog[j], "focusMode")
        /\ ~advertised(cameraLog[j], "exposureMode")
        /\ ~advertised(cameraLog[j], "whiteBalanceMode")
        /\ Len(advancedOf(cameraLog[j])) = 1

\* a callback is in flight in slot p: it awaits the store
inFlight(p) == calls[p].pc # "idle"

\* a callback ends in this step: one that awaited the store, or one that
\* returned before its first store call
callbackEnds ==
  \/ \E p \in Slots : inFlight(p) /\ calls'[p].pc = "idle"
  \/ scans' = scans + 1 /\ calls' = calls

\* the recognition loop runs: a started QrScanner on a rendered video
\* element
recognitionRuns == capturing /\ videoRendered(error)

\* C25: every scan callback, whatever its outcome (success, validation or
\* sequence rejection, store error), sets the scanner status back to
\* 'ready' once its store calls have returned, and leaves the recognition
\* loop running.
C25_OutcomeHandled ==
  /\ \A p \in Slots :
        inFlight(p) ~> (~inFlight(p) /\ scannerStatus = "ready")
  /\ [][callbackEnds => scannerStatus' = "ready" /\ recognitionRuns']_vars

\* C26: when the attendance write has succeeded, a failing notification
\* channel (legacy push or OneSignal) does not make the scan end in its
\* catch block, and the written record stays in the store.
C26_ChannelFailureStaysLocal ==
  ev.wrote =>
    /\ ~ev.caught
    /\ \E i \in DOMAIN attendance_records :
          /\ attendance_records[i].employee_id = ev.emp
          /\ attendance_records[i][ev.nextAction] = ev.t

\* C27: while at least one scan awaits the store, the scanner status is
\* 'processing'; no later callback that is suppressed, rejected or finished
\* sets it to 'ready' before the earlier scan has ended.
C27_ProcessingWhileInFlight ==
  (\E p \in Slots : inFlight(p)) => scannerStatus = "processing"

\* a callback in slot p sends an insert or an update in this step
sendsWrite(p) ==
  /\ calls'[p].pc \in {"insert", "update", "upsert"}
  /\ calls[p].pc # calls'[p].pc

\* C28: once the scanner is closed (unmounted, cleanup run), the session
\* sends no further insert or update to the attendance store, also when a
\* scan was in flight at the moment of closing.
C28_NoWriteAfterClose ==
  [][~isMountedRef => \A p \in Slots : ~sendsWrite(p)]_vars

\* the dedup entry of code c: the time of its last accepted detection
dedupEntry(c) == IF impl = "A" THEN scanCache[c] ELSE lastScanRef[c]

\* C29: a suppressed detection leaves the dedup entry as it is, and a
\* detection of code c at time t is accepted (and becomes the entry)
\* whenever the last accepted detection of c is at least 2000 ms old: a code
\* held in view is accepted again every 2000 ms.
C29_SuppressedKeepsEntry ==
  [][scans' = scans + 1 =>
       /\ ev'.kind = "suppressed" =>
             scanCache' = scanCache /\ lastScanRef' = lastScanRef
       /\ (dedupEntry(ev'.code) = 0
            \/ ev'.t - dedupEntry(ev'.code) >= COOLDOWN_SCAN) =>
             /\ ev'.kind # "suppressed"
             /\ (IF impl = "A" THEN scanCache' ELSE lastScanRef')[ev'.code]
                   = ev'.t]_vars

\* a detection half a scan cooldown after the accepted one was suppressed,
\* and the entry of its code still holds the time of the accepted one
C29_Witness ==
  /\ ev.kind = "suppressed" /\ ev.prev # 0
  /\ ev.t - ev.prev >= COOLDOWN_SCAN \div 2
  /\ dedupEntry(ev.code) = ev.prev

\* the fields of the attendance sequence
sequenceOf(r) ==
  <<r.first_check_in, r.first_check_out, r.second_check_in,
    r.second_check_out, r.total_hours>>

\* C30: the two scanner components agree on the attendance sequence: for
\* the same employee and the same scan times both accept and reject the
\* same scans and leave the same first_check_in, first_check_out,
\* second_check_in, second_check_out and total_hours in the record.
C30_SameSequence ==
  /\ both.acceptedA = both.acceptedB
  /\ sequenceOf(both.A) = sequenceOf(both.B)

====
